---- MODULE Spec2Model ----
(***************************************************************************)
(* Quote streaming server: the Hub (registry of per-client bounded queues  *)
(* and its broadcast), the per-client session loop, and the keep-alive     *)
(* tracker that feeds the liveness map.                                    *)
(*                                                                         *)
(* Spec         the Hub driven through its API (add_client, remove_client, *)
(*              broadcast) by concurrent callers, with the receivers it    *)
(*              hands out being read or dropped by their owners.           *)
(* FairSpec     Spec with weak fairness on the broadcasting thread only.   *)
(* SpecSession  run_session beside the ping tracker, the clock, the        *)
(*              shutdown flag and the producer feeding its queue.          *)
(* SpecKeepAlive  two sessions that advertised the same UDP target, one    *)
(*              of them with a client that pings.                          *)
(* SpecEndToEnd one client that pings and then stops, with fairness.       *)
(* SpecConn     run_tcp_listener and two handle_conn threads.              *)
(* SpecConnErr  one handle_conn thread whose sends and writes may fail.    *)
(* FairServer   every thread of the server, with fairness.                 *)
(* SpecListener run_tcp_listener with every outcome of accept().            *)
(* SpecLiveness the liveness map written by the tracker for two addresses  *)
(*              and read by a session.                                     *)
(* SpecMismatch a client whose pings arrive from another address than the  *)
(*              one it advertised, with fairness.                          *)
(* SpecTickers  parse_tickers_csv on every short text.                     *)
(* SpecParse    parse_command on lines assembled from tokens.              *)
(* SpecFormat   format_stream_command followed by parse_command.           *)
(* SpecWire     encode_v1 followed by decode.                              *)
(* SpecDecode   decode on any datagram.                                    *)
(* SpecClient   the client's run_udp_receiver and run_ping threads.        *)
(* SpecLocks    the server's threads with the Mutex of Hub.clients and the *)
(*              RwLock of the liveness map taken and dropped step by step. *)
(***************************************************************************)
EXTENDS Integers, Sequences, FiniteSets, TLC

\* ---------------------------------------------------------------- bounds
MaxChan == 2                \* channels (successful add_client calls) in one run
MaxQuotes == 2              \* quotes the producer broadcasts in one run of Spec
capacity_per_client == 1    \* Hub.capacity_per_client (256 in Hub::new, 1 in the Hub's tests)
MaxRejected == 1            \* add_client calls answered ClientAlreadyExists in one run
MaxTime == 6                \* the clock stops here

\* ------------------------------------------------------------- constants
PING_TIMEOUT == 5                   \* seconds
BACK_TO_BACK_SEND_ERR_LIMIT == 20
PING_INTERVAL == 2                  \* seconds

NoChan == 0
ClientIds == {1, 2}
Chans == 1..MaxChan
Addrs == {"a1", "a2"}               \* socket addresses
Tickers == {"AAPL", "TSLA"}         \* tickers the generator produces
Filters == {{}, {"AAPL"}}           \* ticker sets a STREAM command may carry
Sessions == {1, 2}

VARIABLES
    clients,                \* Hub.clients: ClientId -> Sender (the channel it sends to), NoChan if vacant
    nextChan,               \* the channel the next crossbeam_channel::bounded() call creates
    queue,                  \* per channel: the quotes buffered in it, oldest first
    rxAlive,                \* per channel: its Receiver exists and has not been dropped
    bpc,                    \* broadcast: "idle" | "send" | "evict"
    q,                      \* broadcast: the quote being fanned out
    clients_snapshot,       \* broadcast: Vec<(ClientId, Sender)>
    bi,                     \* broadcast: position in the loop that is running
    sent,                   \* broadcast: local counter
    dropped_full,           \* broadcast: local counter
    dropped_disconnected,   \* broadcast: Vec<ClientId>
    taken,                  \* per channel: the quotes its receiver took, in the order taken
    hist,                   \* bookkeeping of calls and outcomes, read only by the properties
    shutdown,               \* the process-wide AtomicBool
    now,                    \* the clock (Instant::now()), in seconds
    last_ping,              \* LastPingMap: SocketAddr -> Instant, a function on the keys present
    tpc,                    \* ping tracker: "recv" | "stopped" | "failed"
    spc,                    \* per session: where run_session stands
    rx,                     \* per session: the channel whose Receiver it owns
    udp_target,             \* per session
    tickers,                \* per session: the filter set
    session_start,          \* per session
    back_to_back_err_count, \* per session
    result,                 \* per session: what run_session returned
    shist,                  \* per session: why it left the loop, whether it sent a datagram
    hpc,                    \* per connection: where handle_conn stands
    cmd,                    \* per connection: what extract_command made of the input
    conn_cid,               \* per connection: the ClientId fetch_add returned (cid), 0 before
    curr_client_id,         \* the AtomicU64 the ClientIds come from
    reply,                  \* per connection: the lines handed to stream.write_all, in order
    hret,                   \* per connection: what handle_conn returned
    stream,                 \* per connection: "none" | "open" | "closed"
    lpc,                    \* run_tcp_listener: "check" | "accept" | "accept_err" | "join" | "returned" | "failed"
    session_handles,        \* run_tcp_listener: the JoinHandles it keeps
    ppc,                    \* producer thread: "check" | "batch" | "sleep" | "stopped"
    line,                   \* the text handed to parse_command or parse_tickers_csv
    value,                  \* the value handed to format_stream_command or encode_v1
    buf,                    \* the bytes handed to decode
    answer,                 \* what the function under check returned
    upc,                    \* client, run_udp_receiver: "check" | "recv" | "exit" | "join" | "returned"
    connected,              \* client, run_udp_receiver: the local flag
    peer,                   \* client: the address the socket is connected to, "none" before
    client_shutdown,        \* client: the process-wide AtomicBool
    ping_chan,              \* client: the addresses buffered in the bounded(1) channel
    tx_alive,               \* client: the Sender of that channel has not been dropped
    kpc,                    \* client, run_ping: "wait" | "recv" | "while" | "send" | "sleep" | "returned"
    server_addr,            \* client, run_ping: the local, "none" before the channel gave it
    slept,                  \* client, run_ping: the local, in milliseconds
    client_result,          \* client: what run_udp_receiver and run_ping returned
    chist,                  \* client bookkeeping, read only by the properties
    clients_lock,           \* the Mutex of Hub.clients: the thread holding it and where it stood
    last_ping_lock          \* the RwLock of LastPingMap: its writer and its readers

hubVars == <<clients, nextChan, queue, rxAlive>>
bcVars == <<bpc, q, clients_snapshot, bi, sent, dropped_full, dropped_disconnected>>
envVars == <<shutdown, now, last_ping, tpc>>
sesVars == <<spc, rx, udp_target, tickers, session_start, back_to_back_err_count, result, shist>>
tcpVars == <<hpc, cmd, conn_cid, curr_client_id, reply, hret, stream, lpc, session_handles, ppc>>
pureVars == <<line, value, buf, answer>>
cliVars == <<upc, connected, peer, client_shutdown, ping_chan, tx_alive, kpc, server_addr, slept,
             client_result, chist>>
lockVars == <<clients_lock, last_ping_lock>>
vars == <<clients, nextChan, queue, rxAlive, bpc, q, clients_snapshot, bi, sent,
          dropped_full, dropped_disconnected, taken, hist, shutdown, now, last_ping, tpc,
          spc, rx, udp_target, tickers, session_start, back_to_back_err_count, result, shist,
          hpc, cmd, conn_cid, curr_client_id, reply, hret, stream, lpc, session_handles, ppc,
          line, value, buf, answer,
          upc, connected, peer, client_shutdown, ping_chan, tx_alive, kpc, server_addr,
          slept, client_result, chist, clients_lock, last_ping_lock>>

\* StockQuote; seq numbers the broadcasts and stands for price, volume and timestamp_ms.
StockQuote(ticker, seq) == [ticker |-> ticker, seq |-> seq]

\* ------------------------------------------------------------ the channel

\* try_send that takes a full buffer for a dropped receiver
try_send_full_as_dead(ch) ==
    IF ~rxAlive[ch] \/ Len(queue[ch]) >= capacity_per_client THEN "Disconnected"
    ELSE "Ok"

\* try_send on a channel without a bound
try_send_unbounded(ch) == IF ~rxAlive[ch] THEN "Disconnected" ELSE "Ok"

\* Sender::try_send on a bounded channel: a dropped receiver is reported before a full buffer.
try_send(ch) ==
    IF ~rxAlive[ch] THEN "Disconnected"
    ELSE IF Len(queue[ch]) >= capacity_per_client THEN "Full"
    ELSE "Ok"

\* The senders of a channel: the registry entry and the clones a running broadcast holds.
HasSender(ch) ==
    \/ \E cid \in ClientIds : clients[cid] = ch
    \/ /\ bpc # "idle"
       /\ \E i \in 1..Len(clients_snapshot) : clients_snapshot[i][2] = ch

\* ---------------------------------------------------------------- the Hub

Registered == {cid \in ClientIds : clients[cid] # NoChan}

\* a removal that leaves the entry in place
remove_entry_kept(cid) == clients

\* HashMap::remove(&cid)
remove_entry(cid) == [clients EXCEPT ![cid] = NoChan]

\* an iteration that misses one entry
IterOrders_skipping(S) ==
    {s \in [1..(Cardinality(S) - 1) -> S] : \A i, j \in 1..(Cardinality(S) - 1) : s[i] = s[j] => i = j}

\* The orders in which HashMap::iter may yield the entries of S.
IterOrders(S) ==
    {s \in [1..Cardinality(S) -> S] : \A i, j \in 1..Cardinality(S) : s[i] = s[j] => i = j}

HubInit ==
    /\ clients = [cid \in ClientIds |-> NoChan]
    /\ nextChan = 1
    /\ queue = [ch \in Chans |-> <<>>]
    /\ rxAlive = [ch \in Chans |-> FALSE]
    /\ bpc = "idle"
    /\ q = StockQuote("AAPL", 0)
    /\ clients_snapshot = <<>>
    /\ bi = 0
    /\ sent = 0
    /\ dropped_full = 0
    /\ dropped_disconnected = <<>>
    /\ taken = [ch \in Chans |-> <<>>]
    /\ hist = [add_ok |-> 0, rejected |-> 0, remove_true |-> 0, evicted |-> 0, dropped_dead |-> 0,
               quotes |-> 0, eligible |-> [ch \in Chans |-> {}], reported |-> {},
               dead_at_snapshot |-> {}]

\* main: the shared state before any thread runs
EnvInit ==
    /\ shutdown = FALSE
    /\ now = 0
    /\ last_ping = <<>>
    /\ tpc = "recv"

SesInit ==
    /\ spc = [s \in Sessions |-> "none"]
    /\ rx = [s \in Sessions |-> NoChan]
    /\ udp_target = [s \in Sessions |-> "a1"]
    /\ tickers = [s \in Sessions |-> {}]
    /\ session_start = [s \in Sessions |-> 0]
    /\ back_to_back_err_count = [s \in Sessions |-> 0]
    /\ result = [s \in Sessions |-> "none"]
    /\ shist = [s \in Sessions |-> [exit |-> "none", sent_any |-> FALSE]]

\* main and run_tcp_listener before the first connection
TcpInit ==
    /\ hpc = [c \in Sessions |-> "none"]
    /\ cmd = [c \in Sessions |-> "none"]
    /\ conn_cid = [c \in Sessions |-> 0]
    /\ curr_client_id = 1
    /\ reply = [c \in Sessions |-> <<>>]
    /\ hret = [c \in Sessions |-> "none"]
    /\ stream = [c \in Sessions |-> "none"]
    /\ lpc = "check"
    /\ session_handles = {}
    /\ ppc = "check"

\* No function of quote-core has returned yet.
NoAnswer == [tag |-> "none"]

\* No call of a function of quote-core is under check.
PureInit ==
    /\ line = <<>>
    /\ value = <<>>
    /\ buf = <<>>
    /\ answer = NoAnswer

\* The client when run_udp_receiver has bound its socket, made the channel and spawned
\* run_ping.
ClientInit ==
    /\ upc = "check"
    /\ connected = FALSE
    /\ peer = "none"
    /\ client_shutdown = FALSE
    /\ ping_chan = <<>>
    /\ tx_alive = TRUE
    /\ kpc = "wait"
    /\ server_addr = "none"
    /\ slept = 0
    /\ client_result = [udp |-> "none", ping |-> "none"]
    /\ chist = [decoded |-> <<>>, handed |-> <<>>, pings |-> <<>>]

\* The threads that take locks: the handler of connection c (handle_conn, which runs
\* run_session itself), the producer (which calls Hub::broadcast), the ping tracker.
HandlerThread(c) == <<"handle_conn", c>>
ProducerThread == <<"producer", 0>>
TrackerThread == <<"tracker", 0>>
NoThread == <<"none", 0>>

\* Both locks are free.
LockInit ==
    /\ clients_lock = [holder |-> NoThread, at |-> <<>>]
    /\ last_ping_lock = [writer |-> NoThread, at |-> "none", readers |-> {}]

\* The server before any of its threads has taken a step.
ServerInit == HubInit /\ EnvInit /\ SesInit /\ TcpInit /\ LockInit

Init == ServerInit /\ PureInit /\ ClientInit

\* add_client written with HashMap::insert: an occupied entry is replaced
add_client_overwrite(cid) ==
    /\ nextChan <= MaxChan
    /\ clients' = [clients EXCEPT ![cid] = nextChan]
    /\ rxAlive' = [rxAlive EXCEPT ![nextChan] = TRUE]
    /\ nextChan' = nextChan + 1
    /\ hist' = [hist EXCEPT !.add_ok = @ + 1]
    /\ UNCHANGED <<queue, taken>>
    /\ UNCHANGED bcVars
    /\ UNCHANGED <<envVars, sesVars, tcpVars>>
    /\ UNCHANGED <<pureVars, cliVars, lockVars>>

\* Hub::add_client
add_client(cid) ==
    /\ IF clients[cid] = NoChan
         THEN /\ nextChan <= MaxChan
              /\ clients' = [clients EXCEPT ![cid] = nextChan]
              /\ rxAlive' = [rxAlive EXCEPT ![nextChan] = TRUE]
              /\ nextChan' = nextChan + 1
              /\ hist' = [hist EXCEPT !.add_ok = @ + 1]
         ELSE /\ hist.rejected < MaxRejected
              /\ hist' = [hist EXCEPT !.rejected = @ + 1]
              /\ UNCHANGED <<clients, rxAlive, nextChan>>
    /\ UNCHANGED <<queue, taken>>
    /\ UNCHANGED bcVars
    /\ UNCHANGED <<envVars, sesVars, tcpVars>>
    /\ UNCHANGED <<pureVars, cliVars, lockVars>>

\* a remove_client that always answers true
remove_client_returns_true(cid) == TRUE

\* Hub::remove_client, the value returned: clients.remove(&cid).is_some()
remove_client_returns(cid) == clients[cid] # NoChan

\* Hub::remove_client, called from outside broadcast
remove_client(cid) ==
    /\ clients' = remove_entry(cid)
    /\ hist' = [hist EXCEPT !.remove_true = @ + (IF remove_client_returns(cid) THEN 1 ELSE 0)]
    /\ UNCHANGED <<nextChan, queue, rxAlive, taken>>
    /\ UNCHANGED bcVars
    /\ UNCHANGED <<envVars, sesVars, tcpVars>>
    /\ UNCHANGED <<pureVars, cliVars, lockVars>>

\* Hub::broadcast, the snapshot taken under the registry lock
broadcast_snapshot ==
    /\ bpc = "idle"
    /\ hist.quotes < MaxQuotes
    /\ \E order \in IterOrders(Registered) :
         clients_snapshot' = [i \in 1..Len(order) |-> <<order[i], clients[order[i]]>>]
    /\ q' = StockQuote("AAPL", hist.quotes + 1)
    /\ bpc' = "send"
    /\ bi' = 1
    /\ sent' = 0
    /\ dropped_full' = 0
    /\ dropped_disconnected' = <<>>
    /\ hist' = [hist EXCEPT !.quotes = @ + 1,
                            !.eligible = [ch \in Chans |->
                                IF \E cid \in Registered : clients[cid] = ch
                                  THEN @[ch] \cup {hist.quotes + 1} ELSE @[ch]],
                            !.dead_at_snapshot = {ch \in Chans : ch < nextChan /\ ~rxAlive[ch]}]
    /\ UNCHANGED taken
    /\ UNCHANGED hubVars
    /\ UNCHANGED <<envVars, sesVars, tcpVars>>
    /\ UNCHANGED <<pureVars, cliVars, lockVars>>

\* the loop written with the blocking send: it waits while the queue is full
broadcast_send_blocking ==
    /\ bpc = "send"
    /\ bi <= Len(clients_snapshot)
    /\ LET cid == clients_snapshot[bi][1]
           tx == clients_snapshot[bi][2]
           r == try_send(tx)
       IN /\ r # "Full"
          /\ queue' = IF r = "Ok" THEN [queue EXCEPT ![tx] = Append(@, q)] ELSE queue
          /\ sent' = IF r = "Ok" THEN sent + 1 ELSE sent
          /\ dropped_disconnected' =
                IF r = "Disconnected" THEN Append(dropped_disconnected, cid)
                ELSE dropped_disconnected
          /\ hist' = IF r = "Disconnected" THEN [hist EXCEPT !.reported = @ \cup {<<cid, tx>>}] ELSE hist
    /\ bi' = bi + 1
    /\ UNCHANGED <<bpc, q, clients_snapshot, dropped_full, taken>>
    /\ UNCHANGED <<clients, nextChan, rxAlive>>
    /\ UNCHANGED <<envVars, sesVars, tcpVars>>
    /\ UNCHANGED <<pureVars, cliVars, lockVars>>

\* the loop leaving at the first client it cannot deliver to
broadcast_send_until_failure ==
    /\ bpc = "send"
    /\ bi <= Len(clients_snapshot)
    /\ LET cid == clients_snapshot[bi][1]
           tx == clients_snapshot[bi][2]
           r == try_send(tx)
       IN /\ queue' = IF r = "Ok" THEN [queue EXCEPT ![tx] = Append(@, q)] ELSE queue
          /\ sent' = IF r = "Ok" THEN sent + 1 ELSE sent
          /\ dropped_disconnected' =
                IF r = "Disconnected" THEN Append(dropped_disconnected, cid)
                ELSE dropped_disconnected
          /\ dropped_full' = IF r = "Full" THEN dropped_full + 1 ELSE dropped_full
          /\ hist' = IF r = "Disconnected" THEN [hist EXCEPT !.reported = @ \cup {<<cid, tx>>}] ELSE hist
          /\ bi' = IF r = "Ok" THEN bi + 1 ELSE Len(clients_snapshot) + 1
    /\ UNCHANGED <<bpc, q, clients_snapshot, taken>>
    /\ UNCHANGED <<clients, nextChan, rxAlive>>
    /\ UNCHANGED <<envVars, sesVars, tcpVars>>
    /\ UNCHANGED <<pureVars, cliVars, lockVars>>

\* Hub::broadcast, one iteration of the try_send loop
broadcast_try_send ==
    /\ bpc = "send"
    /\ bi <= Len(clients_snapshot)
    /\ LET cid == clients_snapshot[bi][1]
           tx == clients_snapshot[bi][2]
           r == try_send(tx)
       IN /\ queue' = IF r = "Ok" THEN [queue EXCEPT ![tx] = Append(@, q)] ELSE queue
          /\ sent' = IF r = "Ok" THEN sent + 1 ELSE sent
          /\ dropped_disconnected' =
                IF r = "Disconnected" THEN Append(dropped_disconnected, cid)
                ELSE dropped_disconnected
          /\ dropped_full' = IF r = "Full" THEN dropped_full + 1 ELSE dropped_full
          /\ hist' = IF r = "Disconnected" THEN [hist EXCEPT !.reported = @ \cup {<<cid, tx>>}] ELSE hist
    /\ bi' = bi + 1
    /\ UNCHANGED <<bpc, q, clients_snapshot, taken>>
    /\ UNCHANGED <<clients, nextChan, rxAlive>>
    /\ UNCHANGED <<envVars, sesVars, tcpVars>>
    /\ UNCHANGED <<pureVars, cliVars, lockVars>>

\* Hub::broadcast, the try_send loop is over
broadcast_sent_all ==
    /\ bpc = "send"
    /\ bi > Len(clients_snapshot)
    /\ bpc' = "evict"
    /\ bi' = 1
    /\ UNCHANGED <<q, clients_snapshot, sent, dropped_full, dropped_disconnected>>
    /\ UNCHANGED <<taken, hist>>
    /\ UNCHANGED hubVars
    /\ UNCHANGED <<envVars, sesVars, tcpVars>>
    /\ UNCHANGED <<pureVars, cliVars, lockVars>>

\* the eviction loop forgetting the removal
broadcast_evict_nothing ==
    /\ bpc = "evict"
    /\ bi <= Len(dropped_disconnected)
    /\ bi' = bi + 1
    /\ UNCHANGED <<bpc, q, clients_snapshot, sent, dropped_full, dropped_disconnected>>
    /\ UNCHANGED <<clients, nextChan, queue, rxAlive, taken, hist>>
    /\ UNCHANGED <<envVars, sesVars, tcpVars>>
    /\ UNCHANGED <<pureVars, cliVars, lockVars>>

\* Hub::broadcast, one iteration of the eviction loop
broadcast_evict ==
    /\ bpc = "evict"
    /\ bi <= Len(dropped_disconnected)
    /\ LET cid == dropped_disconnected[bi]
       IN /\ clients' = remove_entry(cid)
          /\ hist' = [hist EXCEPT !.evicted = @ + (IF clients[cid] # NoChan THEN 1 ELSE 0)]
    /\ bi' = bi + 1
    /\ UNCHANGED <<bpc, q, clients_snapshot, sent, dropped_full, dropped_disconnected>>
    /\ UNCHANGED <<nextChan, queue, rxAlive, taken>>
    /\ UNCHANGED <<envVars, sesVars, tcpVars>>
    /\ UNCHANGED <<pureVars, cliVars, lockVars>>

\* Hub::broadcast, the BroadcastStats returned
broadcast_return ==
    /\ bpc = "evict"
    /\ bi > Len(dropped_disconnected)
    /\ hist' = [hist EXCEPT !.dropped_dead = @ + Len(dropped_disconnected)]
    /\ bpc' = "idle"
    /\ clients_snapshot' = <<>>
    /\ bi' = 0
    /\ sent' = 0
    /\ dropped_full' = 0
    /\ dropped_disconnected' = <<>>
    /\ UNCHANGED q
    /\ UNCHANGED taken
    /\ UNCHANGED hubVars
    /\ UNCHANGED <<envVars, sesVars, tcpVars>>
    /\ UNCHANGED <<pureVars, cliVars, lockVars>>

Broadcast ==
    \/ broadcast_snapshot
    \/ broadcast_try_send
    \/ broadcast_sent_all
    \/ broadcast_evict
    \/ broadcast_return

\* The owner of a Receiver drops it.
drop_receiver(ch) ==
    /\ rxAlive[ch]
    /\ rxAlive' = [rxAlive EXCEPT ![ch] = FALSE]
    /\ UNCHANGED <<clients, nextChan, queue, taken, hist>>
    /\ UNCHANGED bcVars
    /\ UNCHANGED <<envVars, sesVars, tcpVars>>
    /\ UNCHANGED <<pureVars, cliVars, lockVars>>

\* a receive that reads the head and leaves it queued
recv_peek(ch) ==
    /\ rxAlive[ch]
    /\ queue[ch] # <<>>
    /\ taken' = [taken EXCEPT ![ch] = Append(@, Head(queue[ch]))]
    /\ UNCHANGED <<clients, nextChan, queue, rxAlive, hist>>
    /\ UNCHANGED bcVars
    /\ UNCHANGED <<envVars, sesVars, tcpVars>>
    /\ UNCHANGED <<pureVars, cliVars, lockVars>>

\* The owner of a Receiver takes the next quote (try_iter / recv_timeout returning Ok).
recv(ch) ==
    /\ rxAlive[ch]
    /\ queue[ch] # <<>>
    /\ taken' = [taken EXCEPT ![ch] = Append(@, Head(queue[ch]))]
    /\ queue' = [queue EXCEPT ![ch] = Tail(@)]
    /\ UNCHANGED <<clients, nextChan, rxAlive, hist>>
    /\ UNCHANGED bcVars
    /\ UNCHANGED <<envVars, sesVars, tcpVars>>
    /\ UNCHANGED <<pureVars, cliVars, lockVars>>

Next ==
    \/ \E cid \in ClientIds : add_client(cid)
    \/ \E cid \in ClientIds : remove_client(cid)
    \/ Broadcast
    \/ \E ch \in Chans : drop_receiver(ch)
    \/ \E ch \in Chans : recv(ch)

Spec == Init /\ [][Next]_vars

FairSpec == Spec /\ WF_vars(Broadcast)

\* ------------------------------------------------- the clock and the signal

\* A second passes.
tick ==
    /\ now < MaxTime
    /\ now' = now + 1
    /\ UNCHANGED <<shutdown, last_ping, tpc>>
    /\ UNCHANGED <<hubVars, bcVars, taken, hist, sesVars, tcpVars>>
    /\ UNCHANGED <<pureVars, cliVars, lockVars>>

\* main: the Ctrl+C handler
ctrl_c ==
    /\ ~shutdown
    /\ shutdown' = TRUE
    /\ UNCHANGED <<now, last_ping, tpc>>
    /\ UNCHANGED <<hubVars, bcVars, taken, hist, sesVars, tcpVars>>
    /\ UNCHANGED <<pureVars, cliVars, lockVars>>

\* --------------------------------------------------------- the ping tracker

\* an insert that is lost
map_insert_lost(m, src, t) == m

\* an insert that drops every other entry
map_insert_alone(m, src, t) == [a \in {src} |-> t]

\* HashMap::insert(src, t)
map_insert(m, src, t) == [a \in DOMAIN m \cup {src} |-> IF a = src THEN t ELSE m[a]]

\* a removal that empties the map
map_remove_all(m, target) == <<>>

\* HashMap::remove(&target)
map_remove(m, target) == [a \in DOMAIN m \ {target} |-> m[a]]

\* what decode() makes of a datagram
Decoded == {"Ping", "Quote", "Err"}

\* run_udp_ping_listener: the loop condition, read when the previous recv_from has returned
tracker_loop == IF shutdown THEN "stopped" ELSE "recv"

\* run_udp_ping_listener: recv_from returns a datagram from src
tracker_datagram(src, pkt) ==
    /\ tpc = "recv"
    /\ last_ping' = IF pkt = "Ping" THEN map_insert(last_ping, src, now) ELSE last_ping
    /\ tpc' = tracker_loop
    /\ UNCHANGED <<shutdown, now>>
    /\ UNCHANGED <<hubVars, bcVars, taken, hist, sesVars, tcpVars>>
    /\ UNCHANGED <<pureVars, cliVars, lockVars>>

\* a tracker that returns when its read times out
tracker_timeout_returns ==
    /\ tpc = "recv"
    /\ tpc' = "stopped"
    /\ UNCHANGED <<shutdown, now, last_ping>>
    /\ UNCHANGED <<hubVars, bcVars, taken, hist, sesVars, tcpVars>>
    /\ UNCHANGED <<pureVars, cliVars, lockVars>>

\* run_udp_ping_listener: recv_from times out (WouldBlock, TimedOut)
tracker_timeout ==
    /\ tpc = "recv"
    /\ tpc' = tracker_loop
    /\ tpc' # tpc
    /\ UNCHANGED <<shutdown, now, last_ping>>
    /\ UNCHANGED <<hubVars, bcVars, taken, hist, sesVars, tcpVars>>
    /\ UNCHANGED <<pureVars, cliVars, lockVars>>

\* run_udp_ping_listener: recv_from fails with another error
tracker_error ==
    /\ tpc = "recv"
    /\ tpc' = "failed"
    /\ UNCHANGED <<shutdown, now, last_ping>>
    /\ UNCHANGED <<hubVars, bcVars, taken, hist, sesVars, tcpVars>>
    /\ UNCHANGED <<pureVars, cliVars, lockVars>>

\* -------------------------------------------------------------- the session

\* ping_expired with the age taken from max(last ping, session start)
ping_expired_from_later(target, start) ==
    LET since == IF target \in DOMAIN last_ping /\ last_ping[target] > start
                   THEN last_ping[target] ELSE start
    IN now - since > PING_TIMEOUT

\* ping_expired that takes the latest ping from any address
ping_expired_any_source(target, start) ==
    LET latest == CHOOSE t \in {start} \cup {last_ping[a] : a \in DOMAIN last_ping} :
                      \A u \in {start} \cup {last_ping[a] : a \in DOMAIN last_ping} : u <= t
    IN now - latest > PING_TIMEOUT

\* ping_expired
ping_expired(target, start) ==
    LET age == IF target \in DOMAIN last_ping THEN now - last_ping[target] ELSE now - start
    IN age > PING_TIMEOUT

\* handle_quote that keeps the error count after a successful send
handle_quote_no_reset(quote, tickers_fltr, err_count, send_ok) ==
    IF quote.ticker \in tickers_fltr
      THEN IF send_ok
             THEN [err_count |-> err_count, ret |-> "Ok", datagram |-> TRUE]
             ELSE [err_count |-> err_count + 1,
                   ret |-> IF err_count + 1 >= BACK_TO_BACK_SEND_ERR_LIMIT THEN "Err" ELSE "Ok",
                   datagram |-> FALSE]
      ELSE [err_count |-> err_count, ret |-> "Ok", datagram |-> FALSE]

\* handle_quote that sends every quote, whatever its ticker
handle_quote_any_ticker(quote, tickers_fltr, err_count, send_ok) ==
    IF send_ok
      THEN [err_count |-> 0, ret |-> "Ok", datagram |-> TRUE]
      ELSE [err_count |-> err_count + 1,
            ret |-> IF err_count + 1 >= BACK_TO_BACK_SEND_ERR_LIMIT THEN "Err" ELSE "Ok",
            datagram |-> FALSE]

\* handle_quote: the new error count, what it returns, whether a datagram left; send_ok is
\* what send_to answers
handle_quote(quote, tickers_fltr, err_count, send_ok) ==
    IF quote.ticker \in tickers_fltr
      THEN IF send_ok
             THEN [err_count |-> 0, ret |-> "Ok", datagram |-> TRUE]
             ELSE [err_count |-> err_count + 1,
                   ret |-> IF err_count + 1 >= BACK_TO_BACK_SEND_ERR_LIMIT THEN "Err" ELSE "Ok",
                   datagram |-> FALSE]
      ELSE [err_count |-> err_count, ret |-> "Ok", datagram |-> FALSE]

\* handle_conn from the ClientId to the call of run_session: the client is registered, OK
\* is written, the stream is closed.
stream_accepted(s, target, filter) ==
    /\ spc[s] = "none"
    /\ clients[s] = NoChan
    /\ nextChan <= MaxChan
    /\ clients' = [clients EXCEPT ![s] = nextChan]
    /\ rxAlive' = [rxAlive EXCEPT ![nextChan] = TRUE]
    /\ nextChan' = nextChan + 1
    /\ hist' = [hist EXCEPT !.add_ok = @ + 1]
    /\ rx' = [rx EXCEPT ![s] = nextChan]
    /\ udp_target' = [udp_target EXCEPT ![s] = target]
    /\ tickers' = [tickers EXCEPT ![s] = filter]
    /\ spc' = [spc EXCEPT ![s] = "registered"]
    /\ UNCHANGED <<session_start, back_to_back_err_count, result, shist>>
    /\ UNCHANGED tcpVars
    /\ UNCHANGED <<queue, bcVars, taken, envVars>>
    /\ UNCHANGED <<pureVars, cliVars, lockVars>>

\* run_session: entry
session_enter(s) ==
    /\ spc[s] = "registered"
    /\ session_start' = [session_start EXCEPT ![s] = now]
    /\ back_to_back_err_count' = [back_to_back_err_count EXCEPT ![s] = 0]
    /\ spc' = [spc EXCEPT ![s] = "loop"]
    /\ UNCHANGED <<rx, udp_target, tickers, result, shist>>
    /\ UNCHANGED tcpVars
    /\ UNCHANGED <<hubVars, bcVars, taken, hist, envVars>>
    /\ UNCHANGED <<pureVars, cliVars, lockVars>>

\* a loop that does not look at the shutdown flag
session_skip_shutdown(s) ==
    /\ spc[s] = "loop"
    /\ spc' = [spc EXCEPT ![s] = "ping"]
    /\ UNCHANGED <<rx, udp_target, tickers, session_start, back_to_back_err_count, result, shist>>
    /\ UNCHANGED tcpVars
    /\ UNCHANGED <<hubVars, bcVars, taken, hist, envVars>>
    /\ UNCHANGED <<pureVars, cliVars, lockVars>>

\* run_session: the shutdown check at the top of the loop
session_check_shutdown(s) ==
    /\ spc[s] = "loop"
    /\ IF shutdown
         THEN /\ spc' = [spc EXCEPT ![s] = "cleanup"]
              /\ shist' = [shist EXCEPT ![s].exit = "shutdown"]
         ELSE /\ spc' = [spc EXCEPT ![s] = "ping"]
              /\ UNCHANGED shist
    /\ UNCHANGED <<rx, udp_target, tickers, session_start, back_to_back_err_count, result>>
    /\ UNCHANGED tcpVars
    /\ UNCHANGED <<hubVars, bcVars, taken, hist, envVars>>
    /\ UNCHANGED <<pureVars, cliVars, lockVars>>

\* run_session: the liveness check
session_check_ping(s) ==
    /\ spc[s] = "ping"
    /\ IF ping_expired(udp_target[s], session_start[s])
         THEN /\ spc' = [spc EXCEPT ![s] = "cleanup"]
              /\ shist' = [shist EXCEPT ![s].exit = "timeout"]
         ELSE /\ spc' = [spc EXCEPT ![s] = "drain"]
              /\ UNCHANGED shist
    /\ UNCHANGED <<rx, udp_target, tickers, session_start, back_to_back_err_count, result>>
    /\ UNCHANGED tcpVars
    /\ UNCHANGED <<hubVars, bcVars, taken, hist, envVars>>
    /\ UNCHANGED <<pureVars, cliVars, lockVars>>

\* run_session: a quote was received and handle_quote(...)? ran; loop_pc is where the loop
\* goes on when handle_quote returns Ok. An Err leaves run_session at once and drops rx.
session_handle(s, send_ok, loop_pc) ==
    LET h == handle_quote(Head(queue[rx[s]]), tickers[s], back_to_back_err_count[s], send_ok)
    IN /\ queue' = [queue EXCEPT ![rx[s]] = Tail(@)]
       /\ back_to_back_err_count' = [back_to_back_err_count EXCEPT ![s] = h.err_count]
       /\ shist' = [shist EXCEPT ![s].sent_any = @ \/ h.datagram,
                                 ![s].exit = IF h.ret = "Err" THEN "send_error" ELSE @]
       /\ spc' = [spc EXCEPT ![s] = IF h.ret = "Err" THEN "returned" ELSE loop_pc]
       /\ result' = [result EXCEPT ![s] = IF h.ret = "Err" THEN "Err" ELSE @]
       /\ rxAlive' = IF h.ret = "Err" THEN [rxAlive EXCEPT ![rx[s]] = FALSE] ELSE rxAlive

\* run_session: for q in rx.try_iter()
session_drain(s, answers) ==
    /\ spc[s] = "drain"
    /\ IF queue[rx[s]] = <<>>
         THEN /\ spc' = [spc EXCEPT ![s] = "wait"]
              /\ UNCHANGED <<queue, rxAlive, back_to_back_err_count, result, shist>>
         ELSE \E send_ok \in answers : session_handle(s, send_ok, "drain")
    /\ UNCHANGED <<rx, udp_target, tickers, session_start>>
    /\ UNCHANGED tcpVars
    /\ UNCHANGED <<clients, nextChan, bcVars, taken, hist, envVars>>
    /\ UNCHANGED <<pureVars, cliVars, lockVars>>

\* run_session: rx.recv_timeout(UDP_SOCKET_TICK)
session_wait(s, answers) ==
    /\ spc[s] = "wait"
    /\ IF queue[rx[s]] # <<>>
         THEN \E send_ok \in answers : session_handle(s, send_ok, "loop")
         ELSE /\ IF HasSender(rx[s])
                   THEN /\ spc' = [spc EXCEPT ![s] = "loop"]
                        /\ UNCHANGED shist
                   ELSE /\ spc' = [spc EXCEPT ![s] = "cleanup"]
                        /\ shist' = [shist EXCEPT ![s].exit = "disconnected"]
              /\ UNCHANGED <<queue, rxAlive, back_to_back_err_count, result>>
    /\ UNCHANGED <<rx, udp_target, tickers, session_start>>
    /\ UNCHANGED tcpVars
    /\ UNCHANGED <<clients, nextChan, bcVars, taken, hist, envVars>>
    /\ UNCHANGED <<pureVars, cliVars, lockVars>>

\* run_session: after the loop, the entry of udp_target is removed and Ok(()) returned
session_cleanup(s) ==
    /\ spc[s] = "cleanup"
    /\ last_ping' = map_remove(last_ping, udp_target[s])
    /\ spc' = [spc EXCEPT ![s] = "returned"]
    /\ result' = [result EXCEPT ![s] = "Ok"]
    /\ rxAlive' = [rxAlive EXCEPT ![rx[s]] = FALSE]
    /\ UNCHANGED <<rx, udp_target, tickers, session_start, back_to_back_err_count, shist>>
    /\ UNCHANGED tcpVars
    /\ UNCHANGED <<clients, nextChan, queue, bcVars, taken, hist, shutdown, now, tpc>>
    /\ UNCHANGED <<pureVars, cliVars, lockVars>>

\* run_session; answers are the results send_to may give
Session(s, answers) ==
    \/ session_enter(s)
    \/ session_check_shutdown(s)
    \/ session_check_ping(s)
    \/ session_drain(s, answers)
    \/ session_wait(s, answers)
    \/ session_cleanup(s)

\* Hub::broadcast of one quote, taken as one step: the try_send loop over the registered
\* clients and the eviction of those found disconnected.
hub_broadcast(ticker) ==
    /\ queue' = [ch \in Chans |->
                    IF (\E cid \in ClientIds : clients[cid] = ch) /\ try_send(ch) = "Ok"
                      THEN Append(queue[ch], StockQuote(ticker, 0)) ELSE queue[ch]]
    /\ clients' = [cid \in ClientIds |->
                    IF clients[cid] # NoChan /\ try_send(clients[cid]) = "Disconnected"
                      THEN NoChan ELSE clients[cid]]
    /\ UNCHANGED <<nextChan, rxAlive, bcVars, taken, hist>>
    /\ UNCHANGED <<pureVars, cliVars, lockVars>>

\* The producer thread broadcasts one quote.
produce(ticker) ==
    /\ bpc = "idle"
    /\ hub_broadcast(ticker)
    /\ UNCHANGED <<envVars, sesVars, tcpVars>>

UnitSessions == {1}
UnitAddrs == {"a1"}

NextSession ==
    \/ tick
    \/ ctrl_c
    \/ \E src \in UnitAddrs, pkt \in Decoded : tracker_datagram(src, pkt)
    \/ tracker_timeout
    \/ tracker_error
    \/ \E s \in UnitSessions, target \in UnitAddrs, filter \in Filters : stream_accepted(s, target, filter)
    \/ \E s \in UnitSessions : Session(s, BOOLEAN)
    \/ \E t \in Tickers : produce(t)
    \/ \E cid \in UnitSessions : remove_client(cid)

SpecSession == Init /\ [][NextSession]_vars

\* ---------------------------------------- the TCP listener and its handlers

\* What extract_command makes of a connection's input: a valid STREAM, a line with another
\* verb, a STREAM line that does not parse, no line at all (EOF or a read error).
Commands == {"STREAM", "unknown", "malformed", "eof"}

\* What TcpStream::flush can answer: it does nothing and returns Ok(()).
FlushResults == {TRUE}

\* handle_conn returns: the stream and the Receiver it owns are dropped
conn_return(c, ret) ==
    /\ hret' = [hret EXCEPT ![c] = ret]
    /\ hpc' = [hpc EXCEPT ![c] = "done"]
    /\ stream' = [stream EXCEPT ![c] = "closed"]

\* run_tcp_listener: reap_finished_sessions and the shutdown check at the top of the loop
listener_check ==
    /\ lpc = "check"
    /\ session_handles' = {c \in session_handles : hpc[c] # "done"}
    /\ lpc' = IF shutdown THEN "join" ELSE "accept"
    /\ UNCHANGED <<hpc, cmd, conn_cid, curr_client_id, reply, hret, stream, ppc>>
    /\ UNCHANGED <<hubVars, bcVars, taken, hist, envVars, sesVars>>
    /\ UNCHANGED <<pureVars, cliVars, lockVars>>

\* run_tcp_listener: accept() returns a connection and its handler thread is spawned
listener_accept(c) ==
    /\ lpc = "accept"
    /\ hpc[c] = "none"
    /\ hpc' = [hpc EXCEPT ![c] = "read"]
    /\ stream' = [stream EXCEPT ![c] = "open"]
    /\ session_handles' = session_handles \cup {c}
    /\ lpc' = "check"
    /\ UNCHANGED <<cmd, conn_cid, curr_client_id, reply, hret, ppc>>
    /\ UNCHANGED <<hubVars, bcVars, taken, hist, envVars, sesVars>>
    /\ UNCHANGED <<pureVars, cliVars, lockVars>>

\* run_tcp_listener: accept() returns WouldBlock, the thread sleeps 50 ms
listener_idle ==
    /\ lpc = "accept"
    /\ lpc' = "check"
    /\ UNCHANGED <<hpc, cmd, conn_cid, curr_client_id, reply, hret, stream, session_handles, ppc>>
    /\ UNCHANGED <<hubVars, bcVars, taken, hist, envVars, sesVars>>
    /\ UNCHANGED <<pureVars, cliVars, lockVars>>

\* run_tcp_listener: after the loop every handle left is joined, then Ok(()) is returned
listener_join ==
    /\ lpc = "join"
    /\ \A c \in session_handles : hpc[c] = "done"
    /\ session_handles' = {}
    /\ lpc' = "returned"
    /\ UNCHANGED <<hpc, cmd, conn_cid, curr_client_id, reply, hret, stream, ppc>>
    /\ UNCHANGED <<hubVars, bcVars, taken, hist, envVars, sesVars>>
    /\ UNCHANGED <<pureVars, cliVars, lockVars>>

\* a handler that closes without a reply when the command does not parse
conn_read_silent(c, command, target, filter) ==
    /\ hpc[c] = "read"
    /\ cmd' = [cmd EXCEPT ![c] = command]
    /\ IF command = "STREAM"
         THEN /\ hpc' = [hpc EXCEPT ![c] = "alloc"]
              /\ udp_target' = [udp_target EXCEPT ![c] = target]
              /\ tickers' = [tickers EXCEPT ![c] = filter]
              /\ UNCHANGED <<reply, hret, stream>>
         ELSE /\ conn_return(c, "Ok")
              /\ UNCHANGED <<reply, udp_target, tickers>>
    /\ UNCHANGED <<conn_cid, curr_client_id, lpc, session_handles, ppc>>
    /\ UNCHANGED <<spc, rx, session_start, back_to_back_err_count, result, shist>>
    /\ UNCHANGED <<hubVars, bcVars, taken, hist, envVars>>
    /\ UNCHANGED <<pureVars, cliVars, lockVars>>

\* a handler that returns the parse error to its caller
conn_read_strict(c, command, target, filter) ==
    /\ hpc[c] = "read"
    /\ cmd' = [cmd EXCEPT ![c] = command]
    /\ IF command = "STREAM"
         THEN /\ hpc' = [hpc EXCEPT ![c] = "alloc"]
              /\ udp_target' = [udp_target EXCEPT ![c] = target]
              /\ tickers' = [tickers EXCEPT ![c] = filter]
              /\ UNCHANGED <<reply, hret, stream>>
         ELSE /\ reply' = [reply EXCEPT ![c] = Append(@, "ERR")]
              /\ conn_return(c, "Err")
              /\ UNCHANGED <<udp_target, tickers>>
    /\ UNCHANGED <<conn_cid, curr_client_id, lpc, session_handles, ppc>>
    /\ UNCHANGED <<spc, rx, session_start, back_to_back_err_count, result, shist>>
    /\ UNCHANGED <<hubVars, bcVars, taken, hist, envVars>>
    /\ UNCHANGED <<pureVars, cliVars, lockVars>>

\* handle_conn: extract_command, and the ERR reply when it fails
conn_read(c, command, target, filter) ==
    /\ hpc[c] = "read"
    /\ cmd' = [cmd EXCEPT ![c] = command]
    /\ IF command = "STREAM"
         THEN /\ hpc' = [hpc EXCEPT ![c] = "alloc"]
              /\ udp_target' = [udp_target EXCEPT ![c] = target]
              /\ tickers' = [tickers EXCEPT ![c] = filter]
              /\ UNCHANGED <<reply, hret, stream>>
         ELSE /\ reply' = [reply EXCEPT ![c] = Append(@, "ERR")]
              /\ conn_return(c, "Ok")
              /\ UNCHANGED <<udp_target, tickers>>
    /\ UNCHANGED <<conn_cid, curr_client_id, lpc, session_handles, ppc>>
    /\ UNCHANGED <<spc, rx, session_start, back_to_back_err_count, result, shist>>
    /\ UNCHANGED <<hubVars, bcVars, taken, hist, envVars>>
    /\ UNCHANGED <<pureVars, cliVars, lockVars>>

\* fetch_add that hands out the counter without advancing it
conn_alloc_reuse(c) ==
    /\ hpc[c] = "alloc"
    /\ curr_client_id \in ClientIds
    /\ conn_cid' = [conn_cid EXCEPT ![c] = curr_client_id]
    /\ hpc' = [hpc EXCEPT ![c] = "register"]
    /\ UNCHANGED <<cmd, curr_client_id, reply, hret, stream, lpc, session_handles, ppc>>
    /\ UNCHANGED <<hubVars, bcVars, taken, hist, envVars, sesVars>>
    /\ UNCHANGED <<pureVars, cliVars, lockVars>>

\* handle_conn: curr_client_id.fetch_add(1)
conn_alloc(c) ==
    /\ hpc[c] = "alloc"
    /\ curr_client_id \in ClientIds
    /\ conn_cid' = [conn_cid EXCEPT ![c] = curr_client_id]
    /\ curr_client_id' = curr_client_id + 1
    /\ hpc' = [hpc EXCEPT ![c] = "register"]
    /\ UNCHANGED <<cmd, reply, hret, stream, lpc, session_handles, ppc>>
    /\ UNCHANGED <<hubVars, bcVars, taken, hist, envVars, sesVars>>
    /\ UNCHANGED <<pureVars, cliVars, lockVars>>

\* handle_conn: hub.add_client(cid), and the ERR reply when it is refused
conn_register(c) ==
    /\ hpc[c] = "register"
    /\ IF clients[conn_cid[c]] = NoChan
         THEN /\ nextChan <= MaxChan
              /\ clients' = [clients EXCEPT ![conn_cid[c]] = nextChan]
              /\ rxAlive' = [rxAlive EXCEPT ![nextChan] = TRUE]
              /\ nextChan' = nextChan + 1
              /\ hist' = [hist EXCEPT !.add_ok = @ + 1]
              /\ rx' = [rx EXCEPT ![c] = nextChan]
              /\ hpc' = [hpc EXCEPT ![c] = "write_ok"]
              /\ UNCHANGED <<reply, hret, stream>>
         ELSE /\ hist' = [hist EXCEPT !.rejected = @ + 1]
              /\ reply' = [reply EXCEPT ![c] = Append(@, "ERR")]
              /\ conn_return(c, "Ok")
              /\ UNCHANGED <<clients, rxAlive, nextChan, rx>>
    /\ UNCHANGED <<cmd, conn_cid, curr_client_id, lpc, session_handles, ppc>>
    /\ UNCHANGED <<spc, udp_target, tickers, session_start, back_to_back_err_count, result, shist>>
    /\ UNCHANGED <<queue, bcVars, taken, envVars>>
    /\ UNCHANGED <<pureVars, cliVars, lockVars>>

\* a handler that calls run_session as soon as the client is registered
conn_write_ok_late(c, written) ==
    /\ hpc[c] = "write_ok"
    /\ hpc' = [hpc EXCEPT ![c] = "session"]
    /\ spc' = [spc EXCEPT ![c] = "registered"]
    /\ UNCHANGED <<cmd, conn_cid, curr_client_id, reply, hret, stream, lpc, session_handles, ppc>>
    /\ UNCHANGED <<rx, udp_target, tickers, session_start, back_to_back_err_count, result, shist>>
    /\ UNCHANGED <<hubVars, bcVars, taken, hist, envVars>>
    /\ UNCHANGED <<pureVars, cliVars, lockVars>>

\* a handler that returns the write error and leaves the client registered
conn_write_ok_kept(c, written) ==
    /\ hpc[c] = "write_ok"
    /\ reply' = [reply EXCEPT ![c] = Append(@, "OK")]
    /\ IF written
         THEN /\ hpc' = [hpc EXCEPT ![c] = "flush"]
              /\ UNCHANGED <<hret, stream, rxAlive>>
         ELSE /\ rxAlive' = [rxAlive EXCEPT ![rx[c]] = FALSE]
              /\ conn_return(c, "Err")
    /\ UNCHANGED <<clients, hist>>
    /\ UNCHANGED <<cmd, conn_cid, curr_client_id, lpc, session_handles, ppc>>
    /\ UNCHANGED <<nextChan, queue, bcVars, taken, envVars, sesVars>>
    /\ UNCHANGED <<pureVars, cliVars, lockVars>>

\* handle_conn: stream.write_all(b"OK\n"); when it fails the client is removed from the
\* Hub and the error returned
conn_write_ok(c, written) ==
    /\ hpc[c] = "write_ok"
    /\ reply' = [reply EXCEPT ![c] = Append(@, "OK")]
    /\ IF written
         THEN /\ hpc' = [hpc EXCEPT ![c] = "flush"]
              /\ UNCHANGED <<hret, stream, clients, rxAlive, hist>>
         ELSE /\ clients' = remove_entry(conn_cid[c])
              /\ hist' = [hist EXCEPT !.remove_true = @ + (IF clients[conn_cid[c]] # NoChan THEN 1 ELSE 0)]
              /\ rxAlive' = [rxAlive EXCEPT ![rx[c]] = FALSE]
              /\ conn_return(c, "Err")
    /\ UNCHANGED <<cmd, conn_cid, curr_client_id, lpc, session_handles, ppc>>
    /\ UNCHANGED <<nextChan, queue, bcVars, taken, envVars, sesVars>>
    /\ UNCHANGED <<pureVars, cliVars, lockVars>>

\* handle_conn: stream.flush()?, stream.shutdown(Both), drop(stream), and run_session is
\* called; a failed flush returns the error at once
conn_flush(c, flushed) ==
    /\ hpc[c] = "flush"
    /\ IF flushed
         THEN /\ stream' = [stream EXCEPT ![c] = "closed"]
              /\ hpc' = [hpc EXCEPT ![c] = "session"]
              /\ spc' = [spc EXCEPT ![c] = "registered"]
              /\ UNCHANGED <<hret, rxAlive>>
         ELSE /\ rxAlive' = [rxAlive EXCEPT ![rx[c]] = FALSE]
              /\ conn_return(c, "Err")
              /\ UNCHANGED spc
    /\ UNCHANGED <<cmd, conn_cid, curr_client_id, reply, lpc, session_handles, ppc>>
    /\ UNCHANGED <<rx, udp_target, tickers, session_start, back_to_back_err_count, result, shist>>
    /\ UNCHANGED <<clients, nextChan, queue, bcVars, taken, hist, envVars>>
    /\ UNCHANGED <<pureVars, cliVars, lockVars>>

\* a handler that returns after run_session without removing the client
conn_finish_kept(c) ==
    /\ hpc[c] = "session"
    /\ spc[c] = "returned"
    /\ hret' = [hret EXCEPT ![c] = "Ok"]
    /\ hpc' = [hpc EXCEPT ![c] = "done"]
    /\ UNCHANGED <<cmd, conn_cid, curr_client_id, reply, stream, lpc, session_handles, ppc>>
    /\ UNCHANGED <<hubVars, bcVars, taken, hist, envVars, sesVars>>
    /\ UNCHANGED <<pureVars, cliVars, lockVars>>

\* handle_conn: run_session has returned (Ok or Err), hub.remove_client(cid), Ok(())
conn_finish(c) ==
    /\ hpc[c] = "session"
    /\ spc[c] = "returned"
    /\ clients' = remove_entry(conn_cid[c])
    /\ hist' = [hist EXCEPT !.remove_true = @ + (IF clients[conn_cid[c]] # NoChan THEN 1 ELSE 0)]
    /\ hret' = [hret EXCEPT ![c] = "Ok"]
    /\ hpc' = [hpc EXCEPT ![c] = "done"]
    /\ UNCHANGED <<cmd, conn_cid, curr_client_id, reply, stream, lpc, session_handles, ppc>>
    /\ UNCHANGED <<nextChan, queue, rxAlive, bcVars, taken, envVars, sesVars>>
    /\ UNCHANGED <<pureVars, cliVars, lockVars>>

\* handle_conn; answers are the results send_to may give its session
Handler(c, answers) ==
    \/ \E command \in Commands, target \in UnitAddrs, filter \in Filters :
          conn_read(c, command, target, filter)
    \/ conn_alloc(c)
    \/ conn_register(c)
    \/ \E written \in BOOLEAN : conn_write_ok(c, written)
    \/ \E flushed \in FlushResults : conn_flush(c, flushed)
    \/ Session(c, answers)
    \/ conn_finish(c)

\* main, producer thread: while !shutdown.load()
producer_check ==
    /\ ppc = "check"
    /\ ppc' = IF shutdown THEN "stopped" ELSE "batch"
    /\ UNCHANGED <<hpc, cmd, conn_cid, curr_client_id, reply, hret, stream, lpc, session_handles>>
    /\ UNCHANGED <<hubVars, bcVars, taken, hist, envVars, sesVars>>
    /\ UNCHANGED <<pureVars, cliVars, lockVars>>

\* main, producer thread: the batch is broadcast, then the thread sleeps QUOTE_INTERVAL
producer_batch(ticker) ==
    /\ ppc = "batch"
    /\ hub_broadcast(ticker)
    /\ ppc' = "check"
    /\ UNCHANGED <<hpc, cmd, conn_cid, curr_client_id, reply, hret, stream, lpc, session_handles>>
    /\ UNCHANGED <<envVars, sesVars>>
    /\ UNCHANGED <<pureVars, cliVars, lockVars>>

\* The listener and the handlers of the connections in conns, the producer, Ctrl+C.
NextTcp(conns, answers) ==
    \/ ctrl_c
    \/ listener_check
    \/ \E c \in conns : listener_accept(c)
    \/ listener_idle
    \/ listener_join
    \/ \E c \in conns : Handler(c, answers)
    \/ producer_check
    \/ \E t \in Tickers : producer_batch(t)

\* Two connections whose datagrams go out.
NextConn == NextTcp(Sessions, {TRUE})
SpecConn == Init /\ [][NextConn]_vars

\* One connection whose datagrams may fail to go out.
NextConnErr == NextTcp(UnitSessions, BOOLEAN)
SpecConnErr == Init /\ [][NextConnErr]_vars

\* run_tcp_listener
Listener(conns) ==
    listener_check \/ (\E c \in conns : listener_accept(c)) \/ listener_idle \/ listener_join
\* main, producer thread
Producer == producer_check \/ \E t \in Tickers : producer_batch(t)
\* run_udp_ping_listener
Tracker ==
    \/ \E src \in UnitAddrs, pkt \in Decoded : tracker_datagram(src, pkt)
    \/ tracker_timeout
    \/ tracker_error

\* The whole server with one connection: listener, handler, producer, ping tracker, Ctrl+C.
NextServer == NextTcp(UnitSessions, {TRUE}) \/ Tracker

\* Every thread of the server is scheduled.
FairServer ==
    /\ Init /\ [][NextServer]_vars
    /\ WF_vars(Listener(UnitSessions))
    /\ WF_vars(Producer)
    /\ WF_vars(Tracker)
    /\ \A c \in UnitSessions : WF_vars(Handler(c, {TRUE}))

\* --------------------------------------- the listener when accept() fails

\* What set_nonblocking(false) on an accepted stream can answer.
NonblockingResults == BOOLEAN

\* run_tcp_listener: accept() returns an error other than WouldBlock; the arm logs it
listener_accept_error ==
    /\ lpc = "accept"
    /\ lpc' = "accept_err"
    /\ UNCHANGED <<hpc, cmd, conn_cid, curr_client_id, reply, hret, stream, session_handles, ppc>>
    /\ UNCHANGED <<hubVars, bcVars, taken, hist, envVars, sesVars>>
    /\ UNCHANGED <<pureVars, cliVars, lockVars>>

\* run_tcp_listener: the sleep of 50 ms that ends the error arm; the loop goes on
listener_error_sleep ==
    /\ lpc = "accept_err"
    /\ lpc' = "check"
    /\ UNCHANGED <<hpc, cmd, conn_cid, curr_client_id, reply, hret, stream, session_handles, ppc>>
    /\ UNCHANGED <<hubVars, bcVars, taken, hist, envVars, sesVars>>
    /\ UNCHANGED <<pureVars, cliVars, lockVars>>

\* run_tcp_listener: accept() returns a connection and stream.set_nonblocking(false) is
\* called on it.  When that fails the `?` returns the error out of run_tcp_listener: the
\* stream is dropped, no handler is spawned for it, and session_handles is dropped with
\* the handles still in it, none of them joined (the set is kept to tell which).
listener_stream(c, nonblocking_ok) ==
    IF nonblocking_ok
      THEN listener_accept(c)
      ELSE /\ lpc = "accept"
           /\ hpc[c] = "none"
           /\ stream' = [stream EXCEPT ![c] = "closed"]
           /\ lpc' = "failed"
           /\ UNCHANGED <<hpc, cmd, conn_cid, curr_client_id, reply, hret, session_handles, ppc>>
           /\ UNCHANGED <<hubVars, bcVars, taken, hist, envVars, sesVars>>
           /\ UNCHANGED <<pureVars, cliVars, lockVars>>

\* The listener with every outcome of accept(), the handlers of two connections, Ctrl+C.
NextListener ==
    \/ ctrl_c
    \/ listener_check
    \/ \E c \in Sessions, nonblocking_ok \in NonblockingResults : listener_stream(c, nonblocking_ok)
    \/ listener_idle
    \/ listener_accept_error
    \/ listener_error_sleep
    \/ listener_join
    \/ \E c \in Sessions : Handler(c, {TRUE})

SpecListener == Init /\ [][NextListener]_vars

\* ----------------------------- the liveness map, its writer and its readers

\* The ping tracker hearing from two addresses, one session on either of them, the
\* producer, the clock, Ctrl+C.
NextLiveness ==
    \/ tick
    \/ ctrl_c
    \/ \E src \in Addrs, pkt \in Decoded : tracker_datagram(src, pkt)
    \/ tracker_timeout
    \/ tracker_error
    \/ \E s \in UnitSessions, target \in Addrs, filter \in Filters : stream_accepted(s, target, filter)
    \/ \E s \in UnitSessions : Session(s, {TRUE})
    \/ \E t \in Tickers : produce(t)

SpecLiveness == Init /\ [][NextLiveness]_vars

\* ------------------------------------------- two sessions on one UDP target

\* The session whose client is alive; the client of any other session sends no ping.
PingedSession == 2

\* The last second, counted from the start of its session, at which a client that sends
\* pings until `until` sends one.
LastPingOffset(until) == (until \div PING_INTERVAL) * PING_INTERVAL

\* A second passes; the live client's run_ping sends a Ping every PING_INTERVAL from the
\* start of its session until `until` seconds after it, and the tracker records each on
\* arrival.
clock_with_ping(until) ==
    /\ now < 2 * MaxTime
    /\ now' = now + 1
    /\ last_ping' =
         IF /\ spc[PingedSession] \notin {"none", "registered"}
            /\ now' - session_start[PingedSession] <= until
            /\ (now' - session_start[PingedSession]) % PING_INTERVAL = 0
           THEN map_insert(last_ping, udp_target[PingedSession], now')
           ELSE last_ping
    /\ UNCHANGED <<shutdown, tpc>>
    /\ UNCHANGED <<hpc, cmd, conn_cid, curr_client_id, reply, hret, stream, lpc, session_handles>>
    /\ UNCHANGED <<hubVars, bcVars, taken, hist, sesVars>>
    /\ UNCHANGED <<pureVars, cliVars, lockVars>>

\* The second passes with the producer idle.
tick_with_ping(until) == clock_with_ping(until) /\ ppc' = ppc

NextKeepAlive ==
    \/ tick_with_ping(2 * MaxTime)
    \/ \E s \in Sessions, filter \in Filters : stream_accepted(s, "a1", filter)
    \/ \E s \in Sessions : Session(s, {TRUE})

SpecKeepAlive == Init /\ [][NextKeepAlive]_vars

\* ------------------------------------------------ one client, end to end

\* The second passes and the producer's sleep of QUOTE_INTERVAL ends.
tick_wakes_producer(until) == clock_with_ping(until) /\ ppc' = "check"

\* The producer thread broadcasts its batch and goes to sleep.
produce_and_sleep(ticker) ==
    /\ ppc = "check"
    /\ hub_broadcast(ticker)
    /\ ppc' = "sleep"
    /\ UNCHANGED <<hpc, cmd, conn_cid, curr_client_id, reply, hret, stream, lpc, session_handles>>
    /\ UNCHANGED <<envVars, sesVars>>
    /\ UNCHANGED <<pureVars, cliVars, lockVars>>

\* One client: its STREAM is accepted, its session runs, the producer broadcasts once a
\* second, the client pings for MaxTime seconds and then stops.
NextEndToEnd ==
    \/ tick_wakes_producer(MaxTime)
    \/ \E filter \in Filters : stream_accepted(PingedSession, "a1", filter)
    \/ Session(PingedSession, {TRUE})
    \/ \E t \in Tickers : produce_and_sleep(t)

\* The clock advances and the session thread is scheduled.
SpecEndToEnd ==
    /\ Init /\ [][NextEndToEnd]_vars
    /\ WF_vars(tick_wakes_producer(MaxTime))
    /\ WF_vars(Session(PingedSession, {TRUE}))

\* ------------------------- a client whose pings come from another address

\* The source address the server sees on the datagrams of a client that advertised
\* `target` from behind an address translation: another address.
ObservedSource(target) == CHOOSE a \in Addrs : a # target

\* A second passes and the producer's sleep ends; the client's run_ping sends a Ping every
\* PING_INTERVAL for as long as the run lasts, and the tracker records each under the
\* source address it arrives from.
tick_with_translated_ping ==
    /\ now < 2 * MaxTime
    /\ now' = now + 1
    /\ last_ping' =
         IF /\ spc[PingedSession] \notin {"none", "registered"}
            /\ (now' - session_start[PingedSession]) % PING_INTERVAL = 0
           THEN map_insert(last_ping, ObservedSource(udp_target[PingedSession]), now')
           ELSE last_ping
    /\ ppc' = "check"
    /\ UNCHANGED <<shutdown, tpc>>
    /\ UNCHANGED <<hpc, cmd, conn_cid, curr_client_id, reply, hret, stream, lpc, session_handles>>
    /\ UNCHANGED <<hubVars, bcVars, taken, hist, sesVars>>
    /\ UNCHANGED <<pureVars, cliVars, lockVars>>

\* One client whose STREAM advertises either address, its session, the producer
\* broadcasting once a second.
NextMismatch ==
    \/ tick_with_translated_ping
    \/ \E target \in Addrs, filter \in Filters : stream_accepted(PingedSession, target, filter)
    \/ Session(PingedSession, {TRUE})
    \/ \E t \in Tickers : produce_and_sleep(t)

\* The clock advances and the session thread is scheduled.
SpecMismatch ==
    /\ Init /\ [][NextMismatch]_vars
    /\ WF_vars(tick_with_translated_ping)
    /\ WF_vars(Session(PingedSession, {TRUE}))

\* ------------------------------------------------ quote-core: strings
\* A string is the sequence of its bytes; every text here is ASCII.

\* char::is_whitespace on ASCII: tab, line feed, vertical tab, form feed, carriage
\* return, space
WhiteSpace == {9, 10, 11, 12, 13, 32}

\* str::trim_start
RECURSIVE trim_start(_)
trim_start(s) ==
    IF s # <<>> /\ Head(s) \in WhiteSpace THEN trim_start(Tail(s)) ELSE s

\* str::trim_end
RECURSIVE trim_end(_)
trim_end(s) ==
    IF s # <<>> /\ s[Len(s)] \in WhiteSpace THEN trim_end(SubSeq(s, 1, Len(s) - 1)) ELSE s

\* str::trim
trim(s) == trim_end(trim_start(s))

\* str::split(sep) for a one-byte separator, collected: the parts between the separators,
\* empty parts included
RECURSIVE split(_, _)
split(s, sep) ==
    IF \A i \in DOMAIN s : s[i] # sep
      THEN <<s>>
      ELSE LET i == CHOOSE k \in DOMAIN s : s[k] = sep /\ \A j \in 1..(k - 1) : s[j] # sep
           IN <<SubSeq(s, 1, i - 1)>> \o split(SubSeq(s, i + 1, Len(s)), sep)

\* str::to_ascii_uppercase
to_ascii_uppercase(s) == [i \in DOMAIN s |-> IF s[i] \in 97..122 THEN s[i] - 32 ELSE s[i]]

\* Ord for str: byte by byte, a proper prefix first
RECURSIVE str_lt(_, _)
str_lt(a, b) ==
    IF b = <<>> THEN FALSE
    ELSE IF a = <<>> THEN TRUE
    ELSE IF Head(a) # Head(b) THEN Head(a) < Head(b)
    ELSE str_lt(Tail(a), Tail(b))

\* BTreeSet::into_iter().collect(): the items in ascending order
RECURSIVE into_iter_collect(_)
into_iter_collect(set) ==
    IF set = {} THEN <<>>
    ELSE LET least == CHOOSE x \in set : \A y \in set \ {x} : str_lt(x, y)
         IN <<least>> \o into_iter_collect(set \ {least})

\* [String]::join(sep)
RECURSIVE join(_, _)
join(list, sep) ==
    IF list = <<>> THEN <<>>
    ELSE IF Len(list) = 1 THEN list[1]
    ELSE list[1] \o sep \o join(Tail(list), sep)

\* The texts of at most n bytes over an alphabet.
Texts(alphabet, n) == UNION {[1..k -> alphabet] : k \in 0..n}

\* ------------------------------------------------ quote-core: tickers.rs

\* parse_tickers_csv that keeps the items in the order and number they arrive in
parse_tickers_csv_as_given(raw) ==
    LET items == [i \in DOMAIN split(raw, 44) |-> to_ascii_uppercase(trim(split(raw, 44)[i]))]
    IN SelectSeq(items, LAMBDA t : t # <<>>)

\* parse_tickers_csv
parse_tickers_csv(raw) ==
    LET parts == split(raw, 44)
        set == {to_ascii_uppercase(trim(parts[i])) : i \in {j \in DOMAIN parts : trim(parts[j]) # <<>>}}
    IN into_iter_collect(set)

\* The longest text given to parse_tickers_csv.
MaxRaw == 5

\* The bytes of the texts given to parse_tickers_csv: space, comma, A, a, b.
RawAlphabet == {32, 44, 65, 97, 98}

\* A call of parse_tickers_csv on any text.
InitTickers ==
    /\ ServerInit
    /\ ClientInit
    /\ line \in Texts(RawAlphabet, MaxRaw)
    /\ value = <<>>
    /\ buf = <<>>
    /\ answer = NoAnswer

\* parse_tickers_csv(line) returns
call_parse_tickers_csv ==
    /\ answer = NoAnswer
    /\ answer' = [tag |-> "Vec", list |-> parse_tickers_csv(line)]
    /\ UNCHANGED <<line, value, buf>>
    /\ UNCHANGED <<hubVars, bcVars, taken, hist, envVars, sesVars, tcpVars, cliVars, lockVars>>

SpecTickers == InitTickers /\ [][call_parse_tickers_csv]_vars

\* ------------------------------------------------ std::net::SocketAddr
\* A SocketAddr is [v |-> 4, ip, port] with ip its four octets, or
\* [v |-> 6, ip, port, flowinfo, scope_id] with ip its eight segments.  Of the IPv6
\* addresses only :: and ::1 are written and read here.

\* Ipv6Addr::UNSPECIFIED and Ipv6Addr::LOCALHOST
Ipv6Unspecified == <<0, 0, 0, 0, 0, 0, 0, 0>>
Ipv6Localhost == <<0, 0, 0, 0, 0, 0, 0, 1>>

\* Display for an unsigned integer
RECURSIVE to_decimal(_)
to_decimal(n) == IF n < 10 THEN <<48 + n>> ELSE to_decimal(n \div 10) \o <<48 + (n % 10)>>

\* the value of a string of decimal digits
RECURSIVE decimal_value(_)
decimal_value(s) ==
    IF s = <<>> THEN 0 ELSE decimal_value(SubSeq(s, 1, Len(s) - 1)) * 10 + (s[Len(s)] - 48)

\* a string without its leading zeros
RECURSIVE strip_zeros(_)
strip_zeros(s) == IF s # <<>> /\ Head(s) = 48 THEN strip_zeros(Tail(s)) ELSE s

\* Parser::read_number(10, max_digits, allow_zero_prefix) into an unsigned type whose
\* largest value is max_value, applied to the whole of s; max_digits = 0 is None
read_number_ok(s, max_digits, allow_zero_prefix, max_value) ==
    /\ s # <<>>
    /\ \A i \in DOMAIN s : s[i] \in 48..57
    /\ max_digits > 0 => Len(s) <= max_digits
    /\ allow_zero_prefix \/ Len(s) = 1 \/ s[1] # 48
    /\ Len(strip_zeros(s)) <= 6
    /\ decimal_value(strip_zeros(s)) <= max_value

\* Display for Ipv6Addr
ipv6_display(ip) == IF ip = Ipv6Unspecified THEN <<58, 58>> ELSE <<58, 58, 49>>

\* Display for SocketAddr: "a.b.c.d:port", "[ip]:port", "[ip%scope_id]:port"; the
\* flowinfo of a SocketAddrV6 is not written
socket_addr_display(a) ==
    IF a.v = 4
      THEN join([i \in 1..4 |-> to_decimal(a.ip[i])], <<46>>) \o <<58>> \o to_decimal(a.port)
      ELSE <<91>> \o ipv6_display(a.ip)
             \o (IF a.scope_id = 0 THEN <<>> ELSE <<37>> \o to_decimal(a.scope_id))
             \o <<93, 58>> \o to_decimal(a.port)

\* Parser::read_socket_addr_v4 on the whole of s
read_socket_addr_v4(s) ==
    LET halves == split(s, 58)
        octets == split(halves[1], 46)
    IN IF /\ Len(halves) = 2
          /\ Len(octets) = 4
          /\ \A i \in 1..4 : read_number_ok(octets[i], 3, FALSE, 255)
          /\ read_number_ok(halves[2], 0, TRUE, 65535)
         THEN [ok |-> TRUE,
               addr |-> [v |-> 4, ip |-> [i \in 1..4 |-> decimal_value(octets[i])],
                         port |-> decimal_value(strip_zeros(halves[2]))]]
         ELSE [ok |-> FALSE]

\* Parser::read_socket_addr_v6 on the whole of s; the flowinfo it returns is 0
read_socket_addr_v6(s) ==
    LET close == CHOOSE k \in DOMAIN s : s[k] = 93 /\ \A j \in 1..(k - 1) : s[j] # 93
        inner == split(SubSeq(s, 2, close - 1), 37)
        rest == SubSeq(s, close + 1, Len(s))
    IN IF /\ s # <<>>
          /\ s[1] = 91
          /\ \E k \in DOMAIN s : s[k] = 93
          /\ inner[1] \in {<<58, 58>>, <<58, 58, 49>>}
          /\ Len(inner) <= 2
          /\ Len(inner) = 2 => read_number_ok(inner[2], 0, TRUE, 999999)
          /\ rest # <<>>
          /\ rest[1] = 58
          /\ read_number_ok(Tail(rest), 0, TRUE, 65535)
         THEN [ok |-> TRUE,
               addr |-> [v |-> 6,
                         ip |-> IF inner[1] = <<58, 58>> THEN Ipv6Unspecified ELSE Ipv6Localhost,
                         port |-> decimal_value(strip_zeros(Tail(rest))),
                         flowinfo |-> 0,
                         scope_id |-> IF Len(inner) = 2 THEN decimal_value(strip_zeros(inner[2])) ELSE 0]]
         ELSE [ok |-> FALSE]

\* SocketAddr::from_str
socket_addr_parse(s) ==
    IF read_socket_addr_v4(s).ok THEN read_socket_addr_v4(s) ELSE read_socket_addr_v6(s)

\* ------------------------------------------------ quote-core: protocol.rs

\* "STREAM", "udp://"
STREAM == <<83, 84, 82, 69, 65, 77>>
UdpScheme == <<117, 100, 112, 58, 47, 47>>

\* str::split_whitespace, collected: the stretches without white space
RECURSIVE split_whitespace(_)
split_whitespace(s) ==
    LET t == trim_start(s) IN
    IF t = <<>> THEN <<>>
    ELSE IF \A i \in DOMAIN t : t[i] \notin WhiteSpace THEN <<t>>
    ELSE LET i == CHOOSE k \in DOMAIN t :
                      t[k] \in WhiteSpace /\ \A j \in 1..(k - 1) : t[j] \notin WhiteSpace
         IN <<SubSeq(t, 1, i - 1)>> \o split_whitespace(SubSeq(t, i + 1, Len(t)))

\* str::strip_prefix: whether s starts with prefix
starts_with(s, prefix) == Len(s) >= Len(prefix) /\ SubSeq(s, 1, Len(prefix)) = prefix

\* a ProtocolError, with the text it carries if any
Err(error, text) == [tag |-> "Err", error |-> error, text |-> text]

\* parse_command
parse_command(text) ==
    LET parts == split_whitespace(trim(text)) IN
    IF trim(text) = <<>> THEN Err("EmptyCommand", <<>>)
    ELSE IF parts[1] # STREAM THEN Err("UnknownCommand", parts[1])
    ELSE IF Len(parts) < 2 THEN Err("MissingUdpTarget", <<>>)
    ELSE LET udp_uri == parts[2]
             tickers_raw == join(SubSeq(parts, 3, Len(parts)), <<32>>)
             addr_str == SubSeq(udp_uri, Len(UdpScheme) + 1, Len(udp_uri))
         IN IF trim(tickers_raw) = <<>> THEN Err("MissingTickers", <<>>)
            ELSE IF ~starts_with(udp_uri, UdpScheme) THEN Err("BadUdpScheme", <<>>)
            ELSE IF ~socket_addr_parse(addr_str).ok THEN Err("InvalidUdpAddress", addr_str)
            ELSE IF parse_tickers_csv(tickers_raw) = <<>> THEN Err("EmptyTickers", <<>>)
            ELSE [tag |-> "Ok",
                  udp_target |-> socket_addr_parse(addr_str).addr,
                  tickers |-> parse_tickers_csv(tickers_raw)]

\* format_stream_command that separates the tickers with spaces
format_stream_command_spaced(target, list) ==
    STREAM \o <<32>> \o UdpScheme \o socket_addr_display(target) \o <<32>> \o join(list, <<32>>)

\* format_stream_command
format_stream_command(target, list) ==
    STREAM \o <<32>> \o UdpScheme \o socket_addr_display(target) \o <<32>> \o join(list, <<44>>)

\* The lines given to parse_command: optional white space, an optional first token
\* (STREAM, PING), an optional second token (udp://1.2.3.4:5, tcp://1.2.3.4:5, udp://x,
\* udp://[::1]:5), an optional rest ("," and "a,B" and "A ,b"), an optional line feed.
Words(choices) == {<<>>} \cup {<<32>> \o w : w \in choices}
CommandLines ==
    {lead \o verb \o uri \o rest \o tail :
        lead \in {<<>>, <<32>>},
        verb \in {<<>>, STREAM, <<80, 73, 78, 71>>},
        uri \in Words({UdpScheme \o <<49, 46, 50, 46, 51, 46, 52, 58, 53>>,
                       <<116, 99, 112, 58, 47, 47, 49, 46, 50, 46, 51, 46, 52, 58, 53>>,
                       UdpScheme \o <<120>>,
                       UdpScheme \o <<91, 58, 58, 49, 93, 58, 53>>}),
        rest \in Words({<<44>>, <<97, 44, 66>>, <<65, 32, 44, 98>>}),
        tail \in {<<>>, <<10>>}}

\* A call of parse_command on any of the lines.
InitParse ==
    /\ ServerInit
    /\ ClientInit
    /\ line \in CommandLines
    /\ value = <<>>
    /\ buf = <<>>
    /\ answer = NoAnswer

\* parse_command(line) returns
call_parse_command ==
    /\ answer = NoAnswer
    /\ answer' = parse_command(line)
    /\ UNCHANGED <<line, value, buf>>
    /\ UNCHANGED <<hubVars, bcVars, taken, hist, envVars, sesVars, tcpVars, cliVars, lockVars>>

SpecParse == InitParse /\ [][call_parse_command]_vars

\* The longest ticker list given to format_stream_command.
MaxList == 2

\* The addresses given to format_stream_command: IPv4 with small and with the largest
\* octets and port, IPv6 with a scope id, IPv6 with a flowinfo.
SocketAddrs ==
    {[v |-> 4, ip |-> <<1, 2, 3, 4>>, port |-> 5],
     [v |-> 4, ip |-> <<255, 255, 255, 255>>, port |-> 65535],
     [v |-> 4, ip |-> <<0, 0, 0, 0>>, port |-> 0],
     [v |-> 6, ip |-> Ipv6Localhost, port |-> 5, flowinfo |-> 0, scope_id |-> 0],
     [v |-> 6, ip |-> Ipv6Unspecified, port |-> 80, flowinfo |-> 0, scope_id |-> 3],
     [v |-> 6, ip |-> Ipv6Localhost, port |-> 5, flowinfo |-> 1, scope_id |-> 0]}

\* The items of the ticker lists: "A", "B", "a", "", "A,B", " A", "A  B".
TickerItems == {<<65>>, <<66>>, <<97>>, <<>>, <<65, 44, 66>>, <<32, 65>>, <<65, 32, 32, 66>>}

\* A call of format_stream_command on any address and any list of at most MaxList items.
InitFormat ==
    /\ ServerInit
    /\ ClientInit
    /\ line = <<>>
    /\ value \in [udp_target : SocketAddrs, tickers : Texts(TickerItems, MaxList)]
    /\ buf = <<>>
    /\ answer = NoAnswer

\* tests::roundtrip_parse_format_parse: the command is formatted and the text parsed
roundtrip_parse_format_parse ==
    /\ answer = NoAnswer
    /\ line' = format_stream_command(value.udp_target, value.tickers)
    /\ answer' = parse_command(line')
    /\ UNCHANGED <<value, buf>>
    /\ UNCHANGED <<hubVars, bcVars, taken, hist, envVars, sesVars, tcpVars, cliVars, lockVars>>

SpecFormat == InitFormat /\ [][roundtrip_parse_format_parse]_vars

\* ------------------------------------------------ quote-core: wire.rs
\* A datagram is the sequence of its bytes.  A UdpPacketV1 is [kind |-> "Ping"] or
\* [kind |-> "Quote", ticker, price, volume, timestamp_ms]; ticker is a byte string, price
\* the eight bytes of the f64 in little-endian order, volume and timestamp_ms numbers.

WIRE_VERSION == 1

\* f64::is_nan on the eight bytes: exponent all ones, fraction not zero
is_nan(x) ==
    /\ x[8] % 128 = 127
    /\ x[7] \div 16 = 15
    /\ x[7] % 16 # 0 \/ \E i \in 1..6 : x[i] # 0

\* PartialEq for f64: a NaN equals nothing, 0.0 equals -0.0, otherwise the bits decide
f64_eq(x, y) ==
    /\ ~is_nan(x)
    /\ ~is_nan(y)
    /\ \/ x = y
       \/ /\ \A i \in 1..7 : x[i] = 0 /\ y[i] = 0
          /\ x[8] % 128 = 0
          /\ y[8] % 128 = 0

\* derived PartialEq for UdpPacketV1 and StockQuote: variant by variant, field by field
packet_eq(p, r) ==
    /\ p.kind = r.kind
    /\ p.kind = "Quote" =>
          /\ p.ticker = r.ticker
          /\ f64_eq(p.price, r.price)
          /\ p.volume = r.volume
          /\ p.timestamp_ms = r.timestamp_ms

\* postcard: an unsigned integer as a varint, seven bits a byte, low bits first
RECURSIVE varint(_)
varint(n) == IF n < 128 THEN <<n>> ELSE <<128 + (n % 128)>> \o varint(n \div 128)

\* postcard: a varint of at most max_bytes bytes read from the front of b
RECURSIVE read_varint(_, _)
read_varint(b, max_bytes) ==
    IF b = <<>> \/ max_bytes = 0 THEN [ok |-> FALSE]
    ELSE IF b[1] < 128 THEN [ok |-> TRUE, value |-> b[1], rest |-> Tail(b)]
    ELSE LET more == read_varint(Tail(b), max_bytes - 1)
         IN IF more.ok
              THEN [ok |-> TRUE, value |-> (b[1] - 128) + 128 * more.value, rest |-> more.rest]
              ELSE [ok |-> FALSE]

\* postcard::to_allocvec(pkt): the variant index (Quote 0, Ping 1), then for a Quote the
\* fields in order: the ticker as length and bytes, the price as eight bytes, the volume
\* and the timestamp as varints
to_allocvec(pkt) ==
    IF pkt.kind = "Ping"
      THEN varint(1)
      ELSE varint(0) \o varint(Len(pkt.ticker)) \o pkt.ticker \o pkt.price
             \o varint(pkt.volume) \o varint(pkt.timestamp_ms)

\* encode_v1
encode_v1(pkt) == <<WIRE_VERSION>> \o to_allocvec(pkt)

\* a WireError, with the byte it carries if any
WireErr(error, byte) == [tag |-> "Err", error |-> error, text |-> <<byte>>]

\* postcard::from_bytes for a StockQuote, the variant index already read
from_bytes_quote(b) ==
    LET len == read_varint(b, 5)
        after_ticker == SubSeq(len.rest, len.value + 1, Len(len.rest))
        volume == read_varint(SubSeq(after_ticker, 9, Len(after_ticker)), 5)
        timestamp_ms == read_varint(volume.rest, 10)
    IN IF /\ len.ok
          /\ Len(len.rest) >= len.value
          /\ \A i \in 1..len.value : len.rest[i] < 128
          /\ Len(after_ticker) >= 8
          /\ volume.ok
          /\ timestamp_ms.ok
         THEN [tag |-> "Ok",
               pkt |-> [kind |-> "Quote",
                        ticker |-> SubSeq(len.rest, 1, len.value),
                        price |-> SubSeq(after_ticker, 1, 8),
                        volume |-> volume.value,
                        timestamp_ms |-> timestamp_ms.value]]
         ELSE WireErr("Postcard", 0)

\* postcard::from_bytes for a UdpPacketV1; bytes after the packet are ignored
from_bytes(payload) ==
    LET index == read_varint(payload, 5) IN
    IF ~index.ok THEN WireErr("Postcard", 0)
    ELSE IF index.value = 0 THEN from_bytes_quote(index.rest)
    ELSE IF index.value = 1 THEN [tag |-> "Ok", pkt |-> [kind |-> "Ping"]]
    ELSE WireErr("Postcard", 0)

\* decode without the version check
decode_any_version(bytes) ==
    IF bytes = <<>> THEN WireErr("PacketTooShort", 0) ELSE from_bytes(Tail(bytes))

\* decode
decode(bytes) ==
    IF bytes = <<>> THEN WireErr("PacketTooShort", 0)
    ELSE IF bytes[1] # WIRE_VERSION THEN WireErr("UnsupportedWireVersion", bytes[1])
    ELSE from_bytes(Tail(bytes))

\* The f64 values of the packets: 0.0, -0.0, 1.0, a NaN.
Prices ==
    {<<0, 0, 0, 0, 0, 0, 0, 0>>, <<0, 0, 0, 0, 0, 0, 0, 128>>,
     <<0, 0, 0, 0, 0, 0, 240, 63>>, <<0, 0, 0, 0, 0, 0, 248, 127>>}

\* The packets given to encode_v1: Ping, and the Quotes with ticker "", "A" or "AAPL",
\* any of the prices, a volume and a timestamp of one, two or more bytes as varints.
Packets ==
    {[kind |-> "Ping"]} \cup
    [kind : {"Quote"},
     ticker : {<<>>, <<65>>, <<65, 65, 80, 76>>},
     price : Prices,
     volume : {0, 127, 128, 1500},
     timestamp_ms : {0, 300, 1700000000}]

\* A call of encode_v1 on any of the packets.
InitWire ==
    /\ ServerInit
    /\ ClientInit
    /\ line = <<>>
    /\ value \in Packets
    /\ buf = <<>>
    /\ answer = NoAnswer

\* encode_v1(value) returns the datagram
call_encode_v1 ==
    /\ buf = <<>>
    /\ buf' = encode_v1(value)
    /\ UNCHANGED <<line, value, answer>>
    /\ UNCHANGED <<hubVars, bcVars, taken, hist, envVars, sesVars, tcpVars, cliVars, lockVars>>

\* decode(buf) returns
call_decode ==
    /\ buf # <<>>
    /\ answer = NoAnswer
    /\ answer' = decode(buf)
    /\ UNCHANGED <<line, value, buf>>
    /\ UNCHANGED <<hubVars, bcVars, taken, hist, envVars, sesVars, tcpVars, cliVars, lockVars>>

SpecWire == InitWire /\ [][call_encode_v1 \/ call_decode]_vars

\* The longest datagram assembled byte by byte.
MaxBuf == 3

\* The bytes the datagrams are assembled from: the version, its neighbours, the two
\* variant indexes (0 and 1), a letter, and bytes with the continuation bit of a varint.
ByteAlphabet == {0, 1, 2, 65, 128, 255}

\* The datagrams a socket may hand to decode: the empty one, every short byte string,
\* every encoded packet cut at any length, and every encoded packet under another
\* version byte.
Datagrams ==
    Texts(ByteAlphabet, MaxBuf)
      \cup UNION {{SubSeq(encode_v1(p), 1, n) : n \in 0..Len(encode_v1(p))} : p \in Packets}
      \cup {<<v>> \o Tail(encode_v1(p)) : p \in Packets, v \in ByteAlphabet}

\* A datagram has been received into buf.
InitDecode ==
    /\ ServerInit
    /\ ClientInit
    /\ line = <<>>
    /\ value = <<>>
    /\ buf \in Datagrams
    /\ answer = NoAnswer

\* decode(&buf[..n]) returns, whatever the length n of the datagram
call_decode_datagram ==
    /\ answer = NoAnswer
    /\ answer' = decode(buf)
    /\ UNCHANGED <<line, value, buf>>
    /\ UNCHANGED <<hubVars, bcVars, taken, hist, envVars, sesVars, tcpVars, cliVars, lockVars>>

SpecDecode == InitDecode /\ [][call_decode_datagram]_vars

\* ------------------------------------------- quote-client: the UDP loop (udp.rs)
\* The client is a process of its own: its shutdown flag, its socket and its two threads
\* (run_udp_receiver on the main thread, run_ping beside it) share nothing with the
\* server but the datagrams.

TICK_RATE_MS == 200

\* PING_INTERVAL as run_ping receives it, in milliseconds
interval == PING_INTERVAL * 1000

\* Pings one run of the client sends.
MaxPings == 2

\* The datagrams that reach the client's socket: a Ping, a Quote, the empty datagram, a
\* Ping under another version, and a payload that is no packet.
ClientDatagrams ==
    {encode_v1([kind |-> "Ping"]),
     encode_v1([kind |-> "Quote", ticker |-> <<65>>, price |-> <<0, 0, 0, 0, 0, 0, 240, 63>>,
                volume |-> 1, timestamp_ms |-> 1]),
     <<>>, <<2, 1>>, <<1, 7>>}

\* what sock.connect(src) may answer
ConnectResults == BOOLEAN

\* what sock.send_to may answer
SendResults == BOOLEAN

\* main: the Ctrl+C handler of the client
client_ctrl_c ==
    /\ ~client_shutdown
    /\ client_shutdown' = TRUE
    /\ UNCHANGED <<upc, connected, peer, ping_chan, tx_alive, kpc, server_addr, slept,
                   client_result, chist>>
    /\ UNCHANGED <<hubVars, bcVars, taken, hist, envVars, sesVars, tcpVars, pureVars, lockVars>>

\* run_udp_receiver: the shutdown check at the top of the loop
udp_check ==
    /\ upc = "check"
    /\ IF client_shutdown
         THEN /\ upc' = "exit"
              /\ client_result' = [client_result EXCEPT !.udp = "Ok"]
         ELSE /\ upc' = "recv"
              /\ UNCHANGED client_result
    /\ UNCHANGED <<connected, peer, client_shutdown, ping_chan, tx_alive, kpc, server_addr,
                   slept, chist>>
    /\ UNCHANGED <<hubVars, bcVars, taken, hist, envVars, sesVars, tcpVars, pureVars, lockVars>>

\* tx.try_send(src) on the bounded(1) channel: Ok when there is room and the Receiver
\* lives, Full or Disconnected otherwise
try_send_addr_ok == Len(ping_chan) < 1 /\ kpc # "returned"

\* a receiver that locks on to the source of any datagram, decodable or not
udp_recv_from_undecoded(src, bytes, connect_ok) ==
    /\ upc = "recv"
    /\ ~connected
    /\ connected' = TRUE
    /\ peer' = src
    /\ upc' = "check"
    /\ UNCHANGED <<client_shutdown, ping_chan, tx_alive, kpc, server_addr, slept,
                   client_result, chist>>
    /\ UNCHANGED <<hubVars, bcVars, taken, hist, envVars, sesVars, tcpVars, pureVars, lockVars>>

\* run_udp_receiver, not connected: recv_from returns a datagram from src
udp_recv_from(src, bytes, connect_ok) ==
    /\ upc = "recv"
    /\ ~connected
    /\ IF decode(bytes).tag = "Ok"
         THEN IF connect_ok
                THEN /\ connected' = TRUE
                     /\ peer' = src
                     /\ IF try_send_addr_ok
                          THEN /\ ping_chan' = Append(ping_chan, src)
                               /\ chist' = [chist EXCEPT !.decoded = Append(@, src),
                                                         !.handed = Append(@, src)]
                          ELSE /\ UNCHANGED ping_chan
                               /\ chist' = [chist EXCEPT !.decoded = Append(@, src)]
                     /\ upc' = "check"
                     /\ UNCHANGED client_result
                ELSE /\ upc' = "exit"
                     /\ client_result' = [client_result EXCEPT !.udp = "Err"]
                     /\ chist' = [chist EXCEPT !.decoded = Append(@, src)]
                     /\ UNCHANGED <<connected, peer, ping_chan>>
         ELSE /\ upc' = "check"
              /\ UNCHANGED <<connected, peer, ping_chan, client_result, chist>>
    /\ UNCHANGED <<client_shutdown, tx_alive, kpc, server_addr, slept>>
    /\ UNCHANGED <<hubVars, bcVars, taken, hist, envVars, sesVars, tcpVars, pureVars, lockVars>>

\* run_udp_receiver, connected: recv returns a datagram, which is decoded and printed or
\* logged
udp_recv(bytes) ==
    /\ upc = "recv"
    /\ connected
    /\ upc' = "check"
    /\ UNCHANGED <<connected, peer, client_shutdown, ping_chan, tx_alive, kpc, server_addr,
                   slept, client_result, chist>>
    /\ UNCHANGED <<hubVars, bcVars, taken, hist, envVars, sesVars, tcpVars, pureVars, lockVars>>

\* run_udp_receiver: the read times out (WouldBlock, TimedOut), in either state
udp_timeout ==
    /\ upc = "recv"
    /\ upc' = "check"
    /\ UNCHANGED <<connected, peer, client_shutdown, ping_chan, tx_alive, kpc, server_addr,
                   slept, client_result, chist>>
    /\ UNCHANGED <<hubVars, bcVars, taken, hist, envVars, sesVars, tcpVars, pureVars, lockVars>>

\* run_udp_receiver: the read fails with another error, in either state
udp_error ==
    /\ upc = "recv"
    /\ upc' = "exit"
    /\ client_result' = [client_result EXCEPT !.udp = "Err"]
    /\ UNCHANGED <<connected, peer, client_shutdown, ping_chan, tx_alive, kpc, server_addr,
                   slept, chist>>
    /\ UNCHANGED <<hubVars, bcVars, taken, hist, envVars, sesVars, tcpVars, pureVars, lockVars>>

\* run_udp_receiver after the loop: shutdown.store(true), drop(tx)
udp_exit ==
    /\ upc = "exit"
    /\ client_shutdown' = TRUE
    /\ tx_alive' = FALSE
    /\ upc' = "join"
    /\ UNCHANGED <<connected, peer, ping_chan, kpc, server_addr, slept, client_result, chist>>
    /\ UNCHANGED <<hubVars, bcVars, taken, hist, envVars, sesVars, tcpVars, pureVars, lockVars>>

\* run_udp_receiver: h.join() returns, then the function does
udp_join ==
    /\ upc = "join"
    /\ kpc = "returned"
    /\ upc' = "returned"
    /\ UNCHANGED <<connected, peer, client_shutdown, ping_chan, tx_alive, kpc, server_addr,
                   slept, client_result, chist>>
    /\ UNCHANGED <<hubVars, bcVars, taken, hist, envVars, sesVars, tcpVars, pureVars, lockVars>>

\* run_ping, waiting for the address: the shutdown check
ping_wait ==
    /\ kpc = "wait"
    /\ IF client_shutdown
         THEN /\ kpc' = "returned"
              /\ client_result' = [client_result EXCEPT !.ping = "Ok"]
         ELSE /\ kpc' = "recv"
              /\ UNCHANGED client_result
    /\ UNCHANGED <<upc, connected, peer, client_shutdown, ping_chan, tx_alive, server_addr,
                   slept, chist>>
    /\ UNCHANGED <<hubVars, bcVars, taken, hist, envVars, sesVars, tcpVars, pureVars, lockVars>>

\* run_ping, waiting for the address: rx.recv_timeout returns the address, Disconnected or
\* Timeout
ping_recv_timeout ==
    /\ kpc = "recv"
    /\ IF ping_chan # <<>>
         THEN /\ server_addr' = Head(ping_chan)
              /\ ping_chan' = Tail(ping_chan)
              /\ kpc' = "while"
              /\ UNCHANGED client_result
         ELSE IF ~tx_alive
                THEN /\ kpc' = "returned"
                     /\ client_result' = [client_result EXCEPT !.ping = "Ok"]
                     /\ UNCHANGED <<server_addr, ping_chan>>
                ELSE /\ kpc' = "wait"
                     /\ UNCHANGED <<server_addr, ping_chan, client_result>>
    /\ UNCHANGED <<upc, connected, peer, client_shutdown, tx_alive, slept, chist>>
    /\ UNCHANGED <<hubVars, bcVars, taken, hist, envVars, sesVars, tcpVars, pureVars, lockVars>>

\* run_ping: the condition of the while loop
ping_while ==
    /\ kpc = "while"
    /\ IF client_shutdown
         THEN /\ kpc' = "returned"
              /\ client_result' = [client_result EXCEPT !.ping = "Ok"]
         ELSE /\ kpc' = "send"
              /\ UNCHANGED client_result
    /\ UNCHANGED <<upc, connected, peer, client_shutdown, ping_chan, tx_alive, server_addr,
                   slept, chist>>
    /\ UNCHANGED <<hubVars, bcVars, taken, hist, envVars, sesVars, tcpVars, pureVars, lockVars>>

\* run_ping: sock.send_to(&bytes, server_addr)?, then slept = 0
ping_send(send_ok) ==
    /\ kpc = "send"
    /\ Len(chist.pings) < MaxPings
    /\ IF send_ok
         THEN /\ chist' = [chist EXCEPT !.pings =
                              Append(@, [to |-> server_addr,
                                         bytes |-> encode_v1([kind |-> "Ping"]),
                                         after |-> slept])]
              /\ slept' = 0
              /\ kpc' = "sleep"
              /\ UNCHANGED client_result
         ELSE /\ kpc' = "returned"
              /\ client_result' = [client_result EXCEPT !.ping = "Err"]
              /\ UNCHANGED <<slept, chist>>
    /\ UNCHANGED <<upc, connected, peer, client_shutdown, ping_chan, tx_alive, server_addr>>
    /\ UNCHANGED <<hubVars, bcVars, taken, hist, envVars, sesVars, tcpVars, pureVars, lockVars>>

\* a sleep of one step where the code sleeps for the interval
ping_sleep_one_step ==
    /\ kpc = "sleep"
    /\ IF slept = 0 /\ ~client_shutdown
         THEN /\ slept' = TICK_RATE_MS
              /\ UNCHANGED kpc
         ELSE /\ kpc' = "while"
              /\ UNCHANGED slept
    /\ UNCHANGED <<upc, connected, peer, client_shutdown, ping_chan, tx_alive, server_addr,
                   client_result, chist>>
    /\ UNCHANGED <<hubVars, bcVars, taken, hist, envVars, sesVars, tcpVars, pureVars, lockVars>>

\* run_ping: the inner loop, one sleep of at most TICK_RATE_MS per iteration
ping_sleep ==
    /\ kpc = "sleep"
    /\ IF slept < interval /\ ~client_shutdown
         THEN /\ slept' = slept + (IF interval - slept < TICK_RATE_MS THEN interval - slept
                                                                     ELSE TICK_RATE_MS)
              /\ UNCHANGED kpc
         ELSE /\ kpc' = "while"
              /\ UNCHANGED slept
    /\ UNCHANGED <<upc, connected, peer, client_shutdown, ping_chan, tx_alive, server_addr,
                   client_result, chist>>
    /\ UNCHANGED <<hubVars, bcVars, taken, hist, envVars, sesVars, tcpVars, pureVars, lockVars>>

\* the thread of run_udp_receiver
UdpReceiver ==
    \/ udp_check
    \/ \E src \in Addrs, bytes \in ClientDatagrams, connect_ok \in ConnectResults :
          udp_recv_from(src, bytes, connect_ok)
    \/ \E bytes \in ClientDatagrams : udp_recv(bytes)
    \/ udp_timeout
    \/ udp_error
    \/ udp_exit
    \/ udp_join

\* the thread of run_ping
PingSender ==
    \/ ping_wait
    \/ ping_recv_timeout
    \/ ping_while
    \/ \E send_ok \in SendResults : ping_send(send_ok)
    \/ ping_sleep

NextClient == client_ctrl_c \/ UdpReceiver \/ PingSender

\* The ping thread is scheduled; the receiver and the signal need not be.
SpecClient == Init /\ [][NextClient]_vars /\ WF_vars(PingSender)

\* --------------------------------------------------- the locks of the server
\* Hub.clients is a Mutex (hub.rs:44), LastPingMap an RwLock (udp_ping.rs:11).  Each
\* critical section of the code is three steps here: the lock is taken, the code under
\* the guard runs, the guard is dropped.  The code under the guard is the action of the
\* models above; the lock remembers where its holder stood when it took it, and the guard
\* is dropped when the holder has moved on.

\* where a thread stands
Position(t) == IF t = ProducerThread THEN <<bpc, bi>> ELSE <<hpc[t[2]], spc[t[2]]>>

\* a thread that goes on while it still holds a guard
Unlocked_unchecked(t) == TRUE

\* The guards a thread took have gone out of scope: it holds neither lock.
Unlocked(t) ==
    /\ clients_lock.holder # t
    /\ last_ping_lock.writer # t
    /\ t[1] = "handle_conn" => t[2] \notin last_ping_lock.readers

\* The thread is about to call self.clients.lock(): broadcast before its snapshot and
\* before each removal (hub.rs:85, 105), handle_conn in add_client (tcp.rs:143) and in
\* remove_client after a failed write or after run_session (tcp.rs:153, 168).
AtClientsSection(t) ==
    IF t = ProducerThread
      THEN \/ bpc = "idle" /\ hist.quotes < MaxQuotes
           \/ bpc = "evict" /\ bi <= Len(dropped_disconnected)
      ELSE \/ hpc[t[2]] = "register" /\ nextChan <= MaxChan
           \/ hpc[t[2]] = "write_ok"
           \/ hpc[t[2]] = "session" /\ spc[t[2]] = "returned"

\* self.clients.lock() returns the guard
lock_clients(t) ==
    /\ AtClientsSection(t)
    /\ Unlocked(t)
    /\ clients_lock.holder = NoThread
    /\ clients_lock' = [holder |-> t, at |-> Position(t)]
    /\ UNCHANGED last_ping_lock
    /\ UNCHANGED <<hubVars, bcVars, taken, hist, envVars, sesVars, tcpVars, pureVars, cliVars>>

\* The thread holds the guard of Hub.clients and has not yet run the code under it.
HoldsClients(t) == clients_lock.holder = t /\ clients_lock.at = Position(t)

\* the guard of Hub.clients goes out of scope
unlock_clients(t) ==
    /\ clients_lock.holder = t
    /\ clients_lock.at # Position(t)
    /\ clients_lock' = [holder |-> NoThread, at |-> <<>>]
    /\ UNCHANGED last_ping_lock
    /\ UNCHANGED <<hubVars, bcVars, taken, hist, envVars, sesVars, tcpVars, pureVars, cliVars>>

\* ping_expired: last_ping.read() returns the guard
read_last_ping(s) ==
    /\ spc[s] = "ping"
    /\ Unlocked(HandlerThread(s))
    /\ last_ping_lock.writer = NoThread
    /\ last_ping_lock' = [last_ping_lock EXCEPT !.readers = @ \cup {s}]
    /\ UNCHANGED clients_lock
    /\ UNCHANGED <<hubVars, bcVars, taken, hist, envVars, sesVars, tcpVars, pureVars, cliVars>>

\* ping_expired: the read guard goes out of scope
unlock_read(s) ==
    /\ s \in last_ping_lock.readers
    /\ spc[s] # "ping"
    /\ last_ping_lock' = [last_ping_lock EXCEPT !.readers = @ \ {s}]
    /\ UNCHANGED clients_lock
    /\ UNCHANGED <<hubVars, bcVars, taken, hist, envVars, sesVars, tcpVars, pureVars, cliVars>>

\* run_session after the loop: last_ping.write() returns the guard
write_last_ping(s) ==
    /\ spc[s] = "cleanup"
    /\ Unlocked(HandlerThread(s))
    /\ last_ping_lock.writer = NoThread
    /\ last_ping_lock.readers = {}
    /\ last_ping_lock' = [last_ping_lock EXCEPT !.writer = HandlerThread(s)]
    /\ UNCHANGED clients_lock
    /\ UNCHANGED <<hubVars, bcVars, taken, hist, envVars, sesVars, tcpVars, pureVars, cliVars>>

\* run_session returns: the write guard goes out of scope
unlock_write(s) ==
    /\ last_ping_lock.writer = HandlerThread(s)
    /\ spc[s] # "cleanup"
    /\ last_ping_lock' = [last_ping_lock EXCEPT !.writer = NoThread]
    /\ UNCHANGED clients_lock
    /\ UNCHANGED <<hubVars, bcVars, taken, hist, envVars, sesVars, tcpVars, pureVars, cliVars>>

\* run_udp_ping_listener: recv_from returned a Ping from src and last_ping.write() returns
\* the guard
tracker_write(src) ==
    /\ tpc = "recv"
    /\ Unlocked(TrackerThread)
    /\ last_ping_lock.writer = NoThread
    /\ last_ping_lock.readers = {}
    /\ last_ping_lock' = [last_ping_lock EXCEPT !.writer = TrackerThread, !.at = src]
    /\ UNCHANGED clients_lock
    /\ UNCHANGED <<hubVars, bcVars, taken, hist, envVars, sesVars, tcpVars, pureVars, cliVars>>

\* run_udp_ping_listener: map.insert(src, Instant::now()), the guard goes out of scope and
\* the loop condition is read
tracker_insert ==
    /\ last_ping_lock.writer = TrackerThread
    /\ last_ping' = map_insert(last_ping, last_ping_lock.at, now)
    /\ tpc' = tracker_loop
    /\ last_ping_lock' = [last_ping_lock EXCEPT !.writer = NoThread, !.at = "none"]
    /\ UNCHANGED <<shutdown, now>>
    /\ UNCHANGED clients_lock
    /\ UNCHANGED <<hubVars, bcVars, taken, hist, sesVars, tcpVars, pureVars, cliVars>>

\* Hub::broadcast called by the producer
LockingProducer ==
    \/ lock_clients(ProducerThread)
    \/ HoldsClients(ProducerThread) /\ broadcast_snapshot
    \/ unlock_clients(ProducerThread)
    \/ Unlocked(ProducerThread) /\ broadcast_try_send
    \/ Unlocked(ProducerThread) /\ broadcast_sent_all
    \/ HoldsClients(ProducerThread) /\ broadcast_evict
    \/ Unlocked(ProducerThread) /\ broadcast_return

\* handle_conn and the run_session it calls; writes are the results the write of the OK
\* reply may have on this connection. When the write has failed the thread is in
\* remove_client, under the guard.
LockingHandler(c, writes) ==
    \/ \E target \in UnitAddrs : Unlocked(HandlerThread(c)) /\ conn_read(c, "STREAM", target, {"AAPL"})
    \/ Unlocked(HandlerThread(c)) /\ conn_alloc(c)
    \/ lock_clients(HandlerThread(c))
    \/ HoldsClients(HandlerThread(c)) /\ conn_register(c)
    \/ unlock_clients(HandlerThread(c))
    \/ TRUE \in writes /\ Unlocked(HandlerThread(c)) /\ conn_write_ok(c, TRUE)
    \/ FALSE \in writes /\ HoldsClients(HandlerThread(c)) /\ conn_write_ok(c, FALSE)
    \/ \E flushed \in FlushResults : Unlocked(HandlerThread(c)) /\ conn_flush(c, flushed)
    \/ Unlocked(HandlerThread(c)) /\ session_enter(c)
    \/ Unlocked(HandlerThread(c)) /\ session_check_shutdown(c)
    \/ read_last_ping(c)
    \/ c \in last_ping_lock.readers /\ session_check_ping(c)
    \/ unlock_read(c)
    \/ Unlocked(HandlerThread(c)) /\ session_drain(c, {TRUE})
    \/ Unlocked(HandlerThread(c)) /\ session_wait(c, {TRUE})
    \/ write_last_ping(c)
    \/ last_ping_lock.writer = HandlerThread(c) /\ session_cleanup(c)
    \/ unlock_write(c)
    \/ HoldsClients(HandlerThread(c)) /\ conn_finish(c)

\* run_udp_ping_listener receiving Pings
LockingTracker ==
    \/ \E src \in UnitAddrs : tracker_write(src)
    \/ tracker_insert

\* The listener has accepted two connections and spawned their handlers; no other thread
\* has taken a step.
InitLocks ==
    /\ HubInit /\ EnvInit /\ SesInit /\ LockInit /\ PureInit /\ ClientInit
    /\ hpc = [c \in Sessions |-> "read"]
    /\ cmd = [c \in Sessions |-> "none"]
    /\ conn_cid = [c \in Sessions |-> 0]
    /\ curr_client_id = 1
    /\ reply = [c \in Sessions |-> <<>>]
    /\ hret = [c \in Sessions |-> "none"]
    /\ stream = [c \in Sessions |-> "open"]
    /\ lpc = "check"
    /\ session_handles = Sessions
    /\ ppc = "check"

NextLocks ==
    \/ ctrl_c
    \/ LockingProducer
    \/ LockingHandler(1, BOOLEAN)
    \/ LockingHandler(2, {FALSE})
    \/ LockingTracker

\* The server with its locks: the producer, the tracker, the handler of a connection that
\* may go on to its session, and the handler of a connection whose OK reply cannot be
\* written.
SpecLocks == InitLocks /\ [][NextLocks]_vars

\* ------------------------------------------------------------ properties
\* The position of the try_send loop, when the step taken is one of its iterations.
SendStep(i) == bpc = "send" /\ bi = i /\ i <= Len(clients_snapshot) /\ bi' = i + 1 /\ bpc' = "send"
SnapCid(i) == clients_snapshot[i][1]
SnapTx(i) == clients_snapshot[i][2]
\* The broadcast has run both loops and is about to return its stats.
Returning == bpc = "evict" /\ bi > Len(dropped_disconnected)
\* The broadcast that found ch dead has not finished evicting yet.
BeingEvicted(ch) ==
    /\ bpc # "idle"
    /\ ~Returning
    /\ \E i \in 1..Len(clients_snapshot) : SnapTx(i) = ch
Elems(s) == {s[i] : i \in 1..Len(s)}

\* C1: a registered client whose receiver was dropped is counted dead, and not sent, by the
\* broadcast that meets it, is reported by one broadcast only, and once that broadcast has
\* run its eviction loop the registration is gone: remove_client(cid) returns false unless
\* the cid was registered anew.
C1_Step ==
    \A i \in 1..Len(clients_snapshot) :
        (SendStep(i) /\ ~rxAlive[SnapTx(i)]) =>
            /\ dropped_disconnected' = Append(dropped_disconnected, SnapCid(i))
            /\ sent' = sent
            /\ <<SnapCid(i), SnapTx(i)>> \notin hist.reported
C1_Gone ==
    \A e \in hist.reported :
        ~BeingEvicted(e[2]) => (clients[e[1]] = NoChan \/ clients[e[1]] > e[2])
C1_Reported ==
    Returning =>
        /\ \A i \in 1..Len(clients_snapshot) :
              SnapTx(i) \in hist.dead_at_snapshot => SnapCid(i) \in Elems(dropped_disconnected)
        /\ Len(dropped_disconnected) =
              Cardinality({i \in 1..Len(clients_snapshot) : SnapCid(i) \in Elems(dropped_disconnected)})
C1_DeadClientEvictedOnce == [][C1_Step]_vars /\ [](C1_Gone /\ C1_Reported)

\* C1 witness: one broadcast has reported a dead client and a later one is returning
\* dropped_dead = 0 with that client no longer registered.
C1_Witness ==
    /\ Returning
    /\ hist.dropped_dead = 1
    /\ dropped_disconnected = <<>>
    /\ \E e \in hist.reported : clients[e[1]] = NoChan

\* C2: a try_send that meets a full queue with a live receiver adds one to dropped_full and
\* changes neither the queue, nor sent, nor the eviction list, nor the registry; and every
\* client the eviction loop removes had a dropped receiver.
C2_Step ==
    \A i \in 1..Len(clients_snapshot) :
        (SendStep(i) /\ rxAlive[SnapTx(i)] /\ Len(queue[SnapTx(i)]) >= capacity_per_client) =>
            /\ dropped_full' = dropped_full + 1
            /\ queue' = queue
            /\ sent' = sent
            /\ dropped_disconnected' = dropped_disconnected
            /\ clients' = clients
C2_EvictsOnlyDead ==
    \A j \in 1..Len(dropped_disconnected) :
        \E i \in 1..Len(clients_snapshot) :
            SnapCid(i) = dropped_disconnected[j] /\ ~rxAlive[SnapTx(i)]
C2_FullQueueDropsQuoteOnly == [][C2_Step]_vars /\ []C2_EvictsOnlyDead

\* C2 witness: a broadcast is returning dropped_full >= 1 and a client of its snapshot is
\* still registered with its full queue.
C2_Witness ==
    /\ Returning
    /\ dropped_full >= 1
    /\ \E i \in 1..Len(clients_snapshot) :
          /\ clients[SnapCid(i)] = SnapTx(i)
          /\ rxAlive[SnapTx(i)]
          /\ Len(queue[SnapTx(i)]) = capacity_per_client

\* C3: each iteration of the try_send loop whose client has a live receiver and room in its
\* queue appends the quote to that queue and counts it sent; the loop visits the snapshot's
\* clients one by one and ends only after the last, whatever the others' queues are.
C3_Step ==
    \A i \in 1..Len(clients_snapshot) :
        (SendStep(i) /\ rxAlive[SnapTx(i)] /\ Len(queue[SnapTx(i)]) < capacity_per_client) =>
            /\ queue' = [queue EXCEPT ![SnapTx(i)] = Append(@, q)]
            /\ sent' = sent + 1
C3_Loop ==
    /\ (bpc = "send" /\ bpc' = "send" /\ bi' # bi) => bi' = bi + 1
    /\ (bpc = "send" /\ bpc' = "evict") => bi = Len(clients_snapshot) + 1
C3_DeliveryIsPerClient == [][C3_Step /\ C3_Loop]_vars

\* C3 witness: a broadcast delivered to one client after failing to deliver to another.
C3_Witness ==
    /\ bpc = "evict"
    /\ Len(clients_snapshot) = 2
    /\ sent = 1
    /\ try_send(SnapTx(1)) # "Ok"
    /\ q \in Elems(queue[SnapTx(2)])

\* C4: a broadcast that has started returns, with fairness for the broadcasting thread alone
\* (no receiver need ever take a quote).
C4_BroadcastReturns == (bpc # "idle") ~> (bpc = "idle")

\* C4 witness: the loop stands at a client whose queue is full and whose receiver is alive.
C4_Witness ==
    /\ bpc = "send"
    /\ bi <= Len(clients_snapshot)
    /\ try_send(SnapTx(bi)) = "Full"

\* C5 as stated, read where no broadcast is running: registered = add_client(OK)
\* - remove_client(true) - the sum of dropped_dead of the completed broadcasts.
C5_Original ==
    bpc = "idle" =>
        Cardinality(Registered) = hist.add_ok - hist.remove_true - hist.dropped_dead

\* C5 amended: in every state, registered = add_client(OK) - remove_client(true) - the
\* registrations the eviction loop of broadcast removed (its remove_client calls that
\* returned true).
C5_RegistryCount ==
    Cardinality(Registered) = hist.add_ok - hist.remove_true - hist.evicted

\* C5 witness: a completed broadcast reported a dead client that a concurrent
\* remove_client had already removed.
C5_Witness ==
    /\ bpc = "idle"
    /\ hist.dropped_dead > hist.evicted
    /\ hist.remove_true >= 1

\* C6: no channel is registered under two ClientIds, a step never replaces the sender of a
\* registered ClientId, a channel is created only for a vacant ClientId, and an add_client
\* answered ClientAlreadyExists changes neither the registry nor any queue.
C6_Inv ==
    \A c1, c2 \in ClientIds : (c1 # c2 /\ clients[c1] # NoChan) => clients[c1] # clients[c2]
C6_Step ==
    /\ \A cid \in ClientIds : clients[cid] # NoChan => clients'[cid] \in {clients[cid], NoChan}
    /\ nextChan' # nextChan =>
          \E cid \in ClientIds :
              /\ clients[cid] = NoChan
              /\ clients' = [clients EXCEPT ![cid] = nextChan]
              /\ queue'[nextChan] = <<>>
    /\ hist'.rejected # hist.rejected =>
          /\ Registered # {}
          /\ UNCHANGED <<clients, nextChan, queue, rxAlive>>
C6_OneRegistrationPerClient == []C6_Inv /\ [][C6_Step]_vars

\* C6 witness: add_client was answered ClientAlreadyExists and the registration it met
\* still holds its queued quote.
C6_Witness ==
    /\ hist.rejected = 1
    /\ \E cid \in Registered : queue[clients[cid]] # <<>>

StaleSinceStart(s) ==
    /\ udp_target[s] \in DOMAIN last_ping
    /\ session_start[s] - last_ping[udp_target[s]] > PING_TIMEOUT

\* C8 as stated: whichever way run_session leaves its loop (shutdown, keep-alive timeout,
\* send-error threshold, queue disconnected), the step in which it returns leaves the
\* liveness map without an entry for its udp_target.
C8_Original ==
    [][\A s \in Sessions :
          (spc[s] # "returned" /\ spc'[s] = "returned") => udp_target[s] \notin DOMAIN last_ping']_vars

\* C9 as stated: whenever a session is at its liveness check, ping_expired answers what
\* now - max(last_ping[target], session_start) > PING_TIMEOUT gives, so that no session
\* times out within PING_TIMEOUT of its own start.
C9_Original ==
    \A s \in Sessions :
        spc[s] = "ping" =>
            ping_expired(udp_target[s], session_start[s])
                = ping_expired_from_later(udp_target[s], session_start[s])

\* C10: a session that reaches a liveness check while the map still holds, for its target,
\* an entry older than PING_TIMEOUT at the session's start leaves the loop at that check
\* for keep-alive timeout, and that check is its first: it has sent no datagram and its
\* error count is still 0. When it then returns, it returns Ok, still has sent
\* nothing, and the map has no entry for its target.
C10_Check(s) ==
    (spc[s] = "ping" /\ spc'[s] # "ping" /\ StaleSinceStart(s)) =>
        /\ spc'[s] = "cleanup"
        /\ shist'[s].exit = "timeout"
        /\ ~shist'[s].sent_any
        /\ back_to_back_err_count[s] = 0
C10_Return(s) ==
    (spc[s] = "cleanup" /\ spc'[s] = "returned" /\ shist[s].exit = "timeout") =>
        /\ result'[s] = "Ok"
        /\ udp_target[s] \notin DOMAIN last_ping'
        /\ shist'[s].sent_any = shist[s].sent_any
C10_StaleSessionExitsAtFirstCheck ==
    [][\A s \in Sessions : C10_Check(s) /\ C10_Return(s)]_vars

\* C10 witness: a session that started on a stale entry has left its loop for keep-alive
\* timeout, with the stale entry still in the map and nothing sent.
C10_Witness ==
    \E s \in Sessions :
        /\ spc[s] = "cleanup"
        /\ shist[s].exit = "timeout"
        /\ StaleSinceStart(s)
        /\ ~shist[s].sent_any

\* The step is session s handing the head of its queue to handle_quote.
HandleStep(s) ==
    /\ spc[s] \in {"drain", "wait"}
    /\ queue[rx[s]] # <<>>
    /\ queue'[rx[s]] = Tail(queue[rx[s]])
\* The step is session s leaving run_session with the send error.
SendErrorExit(s) == spc[s] # "returned" /\ spc'[s] = "returned" /\ result'[s] = "Err"

\* C11: the error count never exceeds 20 and changes only when a quote is handled, where it
\* stays, goes to 0, or grows by 1; the first datagram a session gets out finds the count at
\* 0 afterwards; a failure that brings the count to less than 20 leaves the session running
\* with nothing returned; the session returns the send error in exactly the steps that
\* take the count from 19 to 20.
C11_Count ==
    \A s \in Sessions : back_to_back_err_count[s] \in 0..BACK_TO_BACK_SEND_ERR_LIMIT
C11_Step(s) ==
    LET c == back_to_back_err_count[s]
        d == back_to_back_err_count'[s]
    IN /\ (d # c /\ spc[s] # "registered") => HandleStep(s)
       /\ HandleStep(s) =>
            /\ d \in {0, c, c + 1}
            /\ (shist'[s].sent_any /\ ~shist[s].sent_any) => d = 0
            /\ (d = c + 1 /\ d < BACK_TO_BACK_SEND_ERR_LIMIT) =>
                  (spc'[s] \in {"drain", "loop"} /\ result'[s] = "none")
       /\ SendErrorExit(s) <=>
            (HandleStep(s) /\ c = BACK_TO_BACK_SEND_ERR_LIMIT - 1 /\ d = BACK_TO_BACK_SEND_ERR_LIMIT)
C11_SendErrorAtTwentiethFailure ==
    []C11_Count /\ [][\A s \in Sessions : C11_Step(s)]_vars

\* C11 witness: a session that had got a datagram out returned the send error with its
\* count at 20.
C11_Witness ==
    \E s \in Sessions :
        /\ result[s] = "Err"
        /\ back_to_back_err_count[s] = BACK_TO_BACK_SEND_ERR_LIMIT
        /\ shist[s].sent_any

\* C12: a handled quote whose ticker is not in the session's filter causes no send: the
\* error count, the record of datagrams sent and the session's result stay as they were and
\* the session goes on; a handled quote whose ticker is in the filter is sent: either the
\* datagram leaves (count 0) or the send fails (count + 1). A queue grows only by a
\* broadcast appending its quote to the queue of a client that is registered.
C12_Step(s) ==
    HandleStep(s) =>
        LET quote == Head(queue[rx[s]])
            c == back_to_back_err_count[s]
            d == back_to_back_err_count'[s]
        IN IF quote.ticker \in tickers[s]
             THEN \/ d = 0 /\ shist'[s].sent_any
                  \/ d = c + 1 /\ shist'[s].sent_any = shist[s].sent_any
             ELSE /\ d = c
                  /\ shist'[s] = shist[s]
                  /\ result'[s] = result[s]
                  /\ spc'[s] \in {"drain", "loop"}
C12_Fed ==
    \A ch \in Chans :
        Len(queue'[ch]) > Len(queue[ch]) =>
            /\ \E cid \in ClientIds : clients[cid] = ch
            /\ \E t \in Tickers : queue'[ch] = Append(queue[ch], StockQuote(t, 0))
C12_SendsExactlyFilteredQuotes ==
    [][C12_Fed /\ \A s \in Sessions : C12_Step(s)]_vars

\* C12 witness: a session with a filter that has sent a datagram holds a quote of another
\* ticker in its queue.
C12_Witness ==
    \E s \in Sessions :
        /\ spc[s] \in {"drain", "wait"}
        /\ shist[s].sent_any
        /\ queue[rx[s]] # <<>>
        /\ Head(queue[rx[s]]).ticker \notin tickers[s]

\* C13 as stated, for two sessions that advertised the same UDP target: the session whose
\* client sends a Ping every PING_INTERVAL from the session's start never leaves its loop
\* for keep-alive timeout, whatever the other session does.
C13_Original == shist[PingedSession].exit # "timeout"

\* The session of the live client is inside run_session.
C14_Running == spc[PingedSession] \in {"loop", "ping", "drain", "wait", "cleanup"}
\* The clock of this run reaches the second at which the last ping is too old.
C14_Room == session_start[PingedSession] + LastPingOffset(MaxTime) + PING_TIMEOUT < 2 * MaxTime

\* C14: for one client whose pings come from its session's target every PING_INTERVAL and
\* then stop: the session leaves its loop only for keep-alive timeout and only when more
\* than PING_TIMEOUT has passed since the last ping (so it is alive well beyond
\* PING_TIMEOUT after its start); once the pings have stopped it returns; and after it has
\* returned nothing more is taken from its queue or sent.
C14_AliveWhilePinged ==
    shist[PingedSession].exit # "none" =>
        /\ shist[PingedSession].exit = "timeout"
        /\ now > session_start[PingedSession] + LastPingOffset(MaxTime) + PING_TIMEOUT
C14_SilentAfterReturn ==
    spc[PingedSession] = "returned" =>
        /\ spc'[PingedSession] = "returned"
        /\ shist'[PingedSession] = shist[PingedSession]
        /\ ~HandleStep(PingedSession)
C14_KeepAliveEndToEnd ==
    /\ []C14_AliveWhilePinged
    /\ (C14_Running /\ C14_Room) ~> (spc[PingedSession] = "returned")
    /\ [][C14_SilentAfterReturn]_vars

\* C14 witness: the session sent datagrams, outlived its last ping by more than
\* PING_TIMEOUT, returned for timeout, and a later broadcast found no one to take it.
C14_Witness ==
    /\ spc[PingedSession] = "returned"
    /\ shist[PingedSession].exit = "timeout"
    /\ shist[PingedSession].sent_any
    /\ now > session_start[PingedSession] + LastPingOffset(MaxTime) + PING_TIMEOUT
    /\ clients[PingedSession] = NoChan

\* The handler of connection c registered a client with the Hub.
HandlerRegistered(c) == rx[c] # NoChan

C16_Inv ==
    /\ hist.rejected = 0
    /\ \A c \in Sessions :
          /\ conn_cid[c] < curr_client_id
          /\ cmd[c] \notin {"none", "STREAM"} => conn_cid[c] = 0
          /\ \A d \in Sessions : (c # d /\ conn_cid[c] # 0) => conn_cid[c] # conn_cid[d]
C16_Step ==
    /\ curr_client_id' \in {curr_client_id, curr_client_id + 1}
    /\ curr_client_id' # curr_client_id =>
          \E c \in Sessions :
              /\ cmd[c] = "STREAM"
              /\ conn_cid[c] = 0
              /\ conn_cid' = [conn_cid EXCEPT ![c] = curr_client_id]
    /\ curr_client_id' = curr_client_id => conn_cid' = conn_cid
C16_ClientIdsUnique == []C16_Inv /\ [][C16_Step]_vars

\* C16 witness: two handlers run their sessions at once, the later connection holding the
\* smaller ClientId.
C16_Witness ==
    /\ conn_cid[1] = 2
    /\ conn_cid[2] = 1
    /\ hpc[1] = "session"
    /\ hpc[2] = "session"

\* C17: a handler hands at most one reply line to write_all and has handed exactly one
\* when it returns; the line is OK exactly when the command was a valid STREAM and the
\* client was registered, otherwise it is an ERR line.
C17_OneReplyLine ==
    \A c \in Sessions :
        /\ reply[c] \in {<<>>, <<"OK">>, <<"ERR">>}
        /\ hpc[c] = "done" => reply[c] # <<>>
        /\ reply[c] = <<"OK">> => (cmd[c] = "STREAM" /\ HandlerRegistered(c))
        /\ reply[c] = <<"ERR">> => (cmd[c] # "STREAM" \/ ~HandlerRegistered(c))

\* C17 witness: one connection was answered ERR for an unknown verb, the other OK.
C17_Witness ==
    \E c, d \in Sessions :
        /\ cmd[c] = "unknown" /\ reply[c] = <<"ERR">> /\ hpc[c] = "done"
        /\ cmd[d] = "STREAM" /\ reply[d] = <<"OK">>

\* C18: a client is registered only under a ClientId that was allocated, OK is written
\* only for a registered client, run_session is called only after OK was written and the
\* stream closed, a datagram is sent only by a session whose OK was written, and nothing
\* is written to a stream that is closed.
C18_Inv ==
    \A c \in Sessions :
        /\ HandlerRegistered(c) => conn_cid[c] # 0
        /\ reply[c] = <<"OK">> => HandlerRegistered(c)
        /\ spc[c] # "none" => (reply[c] = <<"OK">> /\ stream[c] = "closed")
        /\ shist[c].sent_any => reply[c] = <<"OK">>
C18_Step ==
    \A c \in Sessions : stream[c] = "closed" => (reply'[c] = reply[c] /\ stream'[c] = "closed")
C18_HandlerOrder == []C18_Inv /\ [][C18_Step]_vars

\* C18 witness: a session has sent a datagram.
C18_Witness ==
    \E c \in Sessions :
        /\ shist[c].sent_any
        /\ hpc[c] = "session"
        /\ stream[c] = "closed"

\* C19: a connection whose command could not be read or parsed has made its handler return
\* Ok with one ERR line, holds no ClientId and no Receiver, has no session, and the step
\* that handled it left the counter, the registry and the liveness map as they were.
C19_Inv ==
    \A c \in Sessions :
        cmd[c] \notin {"none", "STREAM"} =>
            /\ hpc[c] = "done"
            /\ hret[c] = "Ok"
            /\ conn_cid[c] = 0
            /\ rx[c] = NoChan
            /\ spc[c] = "none"
C19_Step ==
    \A c \in Sessions :
        (cmd[c] = "none" /\ cmd'[c] \notin {"none", "STREAM"}) =>
            UNCHANGED <<curr_client_id, clients, nextChan, rxAlive, last_ping, spc>>
C19_BadCommandLeavesNoTrace == []C19_Inv /\ [][C19_Step]_vars

\* C19 witness: a connection that sent no line was turned away while another client is
\* registered.
C19_Witness ==
    \E c \in Sessions :
        /\ cmd[c] = "eof"
        /\ hpc[c] = "done"
        /\ Registered # {}

\* Every loop of the server has ended.
C20_AllStopped ==
    /\ lpc = "returned"
    /\ ppc = "stopped"
    /\ tpc \in {"stopped", "failed"}
    /\ \A c \in Sessions : hpc[c] \in {"none", "done"} /\ spc[c] \in {"none", "returned"}

\* C20: once the shutdown flag is set, the listener returns, the producer and the tracker
\* leave their loops and every handler and session returns; a session that reads the flag
\* set at the top of its loop leaves the loop there; a handler that is started when the
\* flag is set and reads a valid STREAM still writes OK.
C20_SessionStep ==
    \A c \in Sessions :
        (shutdown /\ spc[c] = "loop" /\ spc'[c] # "loop") =>
            (spc'[c] = "cleanup" /\ shist'[c].exit = "shutdown")
C20_HandlerStep ==
    \A c \in Sessions :
        (shutdown /\ hpc[c] = "write_ok" /\ hpc'[c] # "write_ok") => reply'[c] = <<"OK">>
C20_ShutdownStopsEverything ==
    /\ shutdown ~> C20_AllStopped
    /\ [][C20_SessionStep /\ C20_HandlerStep]_vars

\* C20 witness: everything has stopped and the session left for the shutdown flag after
\* OK was written.
C20_Witness ==
    /\ C20_AllStopped
    /\ \E c \in Sessions : shist[c].exit = "shutdown" /\ reply[c] = <<"OK">> /\ hret[c] = "Ok"

\* run_tcp_listener has returned, with Ok(()) or with an error.
ListenerReturned == lpc \in {"returned", "failed"}

\* C21: once the accept loop has seen the shutdown flag no connection is accepted, and
\* whenever run_tcp_listener has returned, on any return path, every handler thread it
\* spawned has finished and has been joined.
C21_Step ==
    lpc \in {"join", "returned"} => \A c \in Sessions : hpc[c] = "none" => hpc'[c] = "none"
C21_Inv ==
    ListenerReturned =>
        /\ session_handles = {}
        /\ \A c \in Sessions : hpc[c] \in {"none", "done"}
C21_Original == []C21_Inv /\ [][C21_Step]_vars

\* C22: an accept error other than WouldBlock ends the accept loop, and run_tcp_listener
\* returns it as an error.
C22_Original == [][(lpc = "accept_err" /\ lpc' # lpc) => lpc' = "failed"]_vars

\* C23: the tracker leaves its loop without an error only when it reads the shutdown flag
\* set, so a read timeout does not end it and leads only to that check; a read error
\* other than a timeout ends the tracker, which then stays ended, and the step that ends
\* it changes neither the shutdown flag, nor the liveness map, nor any session.
C23_Step ==
    /\ (tpc = "recv" /\ tpc' = "stopped") => shutdown
    /\ tracker_timeout => (tpc' = "stopped" /\ shutdown /\ UNCHANGED last_ping)
    /\ (tpc = "recv" /\ tpc' = "failed") => UNCHANGED <<shutdown, last_ping, sesVars, hubVars>>
    /\ tpc \in {"stopped", "failed"} => tpc' = tpc
C23_TrackerEndsOnErrorOnly == [][C23_Step]_vars

\* C23 witness: the tracker has returned its error, the flag is not set, and a session is
\* in its loop and has sent a datagram.
C23_Witness ==
    /\ tpc = "failed"
    /\ ~shutdown
    /\ \E s \in UnitSessions : spc[s] = "loop" /\ shist[s].sent_any

\* The entry of address a is the same before and after the step.
EntryKept(a) ==
    /\ (a \in DOMAIN last_ping') = (a \in DOMAIN last_ping)
    /\ a \in DOMAIN last_ping => last_ping'[a] = last_ping[a]

\* The step inserts the entry of address a or gives it another value.
EntryWritten(a) ==
    /\ a \in DOMAIN last_ping'
    /\ a \in DOMAIN last_ping => last_ping'[a] # last_ping[a]

\* C24: a tracker step that receives a Ping from src sets the entry of src to the current
\* time and keeps every other entry; a tracker step that receives a Quote or a datagram
\* that does not decode, or that times out or fails, keeps the whole map, and after a
\* Quote or an undecodable datagram the tracker has not failed and goes on receiving
\* unless the shutdown flag is set.
C24_Step ==
    /\ \A src \in Addrs :
          tracker_datagram(src, "Ping") =>
              /\ src \in DOMAIN last_ping'
              /\ last_ping'[src] = now
              /\ \A a \in Addrs \ {src} : EntryKept(a)
    /\ \A src \in Addrs, pkt \in Decoded \ {"Ping"} :
          tracker_datagram(src, pkt) =>
              /\ last_ping' = last_ping
              /\ tpc' = IF shutdown THEN "stopped" ELSE "recv"
    /\ (tracker_timeout \/ tracker_error) => last_ping' = last_ping
C24_TrackerWritesOnlyOnPing == [][C24_Step]_vars

\* C24 witness: a Ping from one address was recorded at a later time than the entry of
\* the other address, which is still there.
C24_Witness ==
    /\ DOMAIN last_ping = Addrs
    /\ last_ping["a2"] > last_ping["a1"]
    /\ last_ping["a2"] = now
    /\ tpc = "recv"

\* C25: no session step inserts an entry of the liveness map or changes the value of
\* one; a session step that deletes an entry deletes the entry of the session's own
\* udp_target and is the last step of run_session; every other entry is kept.
C25_Step ==
    \A s \in UnitSessions :
        Session(s, {TRUE}) =>
            /\ \A a \in Addrs : ~EntryWritten(a)
            /\ \A a \in Addrs :
                  ~EntryKept(a) =>
                      /\ a = udp_target[s]
                      /\ spc[s] = "cleanup"
                      /\ spc'[s] = "returned"
C25_SessionDeletesOnlyItsOwnEntry == [][C25_Step]_vars

\* C25 witness: a session has returned, the entry of its target is gone and the entry of
\* the other address is still there.
C25_Witness ==
    \E s \in UnitSessions :
        /\ spc[s] = "returned"
        /\ udp_target[s] = "a1"
        /\ DOMAIN last_ping = {"a2"}
        /\ shist[s].exit = "timeout"

\* The clock of this run reaches the second after PING_TIMEOUT has passed since the start
\* of the client's session.
C26_Room == session_start[PingedSession] + PING_TIMEOUT < 2 * MaxTime

\* C26: for a client whose pings all arrive from an address other than the one it
\* advertised: the liveness map never holds an entry for the session's target while pings
\* are being recorded; the session leaves its loop only for keep-alive timeout and only
\* after PING_TIMEOUT has passed since its start; the first liveness check made after
\* that moment ends the loop; and the session returns.
C26_Inv ==
    /\ udp_target[PingedSession] \notin DOMAIN last_ping
    /\ shist[PingedSession].exit # "none" =>
          /\ shist[PingedSession].exit = "timeout"
          /\ now > session_start[PingedSession] + PING_TIMEOUT
C26_Step ==
    ( /\ spc[PingedSession] = "ping"
      /\ spc'[PingedSession] # "ping"
      /\ now > session_start[PingedSession] + PING_TIMEOUT ) =>
        (spc'[PingedSession] = "cleanup" /\ shist'[PingedSession].exit = "timeout")
C26_MismatchedAddressTimesOut ==
    /\ []C26_Inv
    /\ [][C26_Step]_vars
    /\ (C14_Running /\ C26_Room) ~> (spc[PingedSession] = "returned")

\* C26 witness: the session has returned for timeout although a Ping of its client was
\* recorded, under the other address, within the last PING_INTERVAL, and several were.
C26_Witness ==
    /\ spc[PingedSession] = "returned"
    /\ shist[PingedSession].exit = "timeout"
    /\ \E a \in DOMAIN last_ping :
          /\ a # udp_target[PingedSession]
          /\ now - last_ping[a] < PING_INTERVAL
          /\ last_ping[a] - session_start[PingedSession] >= 2 * PING_INTERVAL

\* The comma-separated parts of a text: its longest stretches without a comma.
CsvParts(raw) ==
    {SubSeq(raw, r[1], r[2]) : r \in
        {<<a, b>> \in (1..(Len(raw) + 1)) \X (0..Len(raw)) :
            /\ a <= b + 1
            /\ \A k \in a..b : raw[k] # 44
            /\ (a = 1 \/ raw[a - 1] = 44)
            /\ (b = Len(raw) \/ raw[b + 1] = 44)}}

\* C29: the list parse_tickers_csv returns is strictly ascending, has no empty item, every
\* item is trimmed and upper-case, its items are exactly the non-empty trimmed upper-cased
\* comma-separated parts of the input, and parsing its own comma-join returns it again.
C29_NormalizedTickers ==
    answer.tag = "Vec" =>
        LET out == answer.list IN
        /\ \A i \in 1..(Len(out) - 1) : str_lt(out[i], out[i + 1])
        /\ \A i \in DOMAIN out :
              /\ out[i] # <<>>
              /\ trim(out[i]) = out[i]
              /\ to_ascii_uppercase(out[i]) = out[i]
        /\ {out[i] : i \in DOMAIN out} = {to_ascii_uppercase(trim(p)) : p \in CsvParts(line)} \ {<<>>}
        /\ parse_tickers_csv(join(out, <<44>>)) = out

\* C29 witness: an input with lower-case items, a duplicate and items out of order gave
\* two tickers.
C29_Witness ==
    /\ answer.tag = "Vec"
    /\ line = <<98, 44, 97, 44, 65>>
    /\ answer.list = <<<<65>>, <<66>>>>

\* The rules of the control protocol that a line breaks, each named by its error.
BrokenRules(text) ==
    LET tokens == split_whitespace(text) IN
    {rule \in {"EmptyCommand", "UnknownCommand", "MissingUdpTarget", "BadUdpScheme",
               "InvalidUdpAddress", "MissingTickers", "EmptyTickers"} :
        \/ rule = "EmptyCommand" /\ \A i \in DOMAIN text : text[i] \in WhiteSpace
        \/ rule = "UnknownCommand" /\ tokens # <<>> /\ tokens[1] # STREAM
        \/ rule = "MissingUdpTarget" /\ Len(tokens) < 2
        \/ rule = "BadUdpScheme" /\ Len(tokens) >= 2 /\ ~starts_with(tokens[2], UdpScheme)
        \/ rule = "InvalidUdpAddress"
             /\ Len(tokens) >= 2
             /\ starts_with(tokens[2], UdpScheme)
             /\ ~socket_addr_parse(SubSeq(tokens[2], Len(UdpScheme) + 1, Len(tokens[2]))).ok
        \/ rule = "MissingTickers" /\ Len(tokens) < 3
        \/ rule = "EmptyTickers"
             /\ Len(tokens) >= 3
             /\ parse_tickers_csv(join(SubSeq(tokens, 3, Len(tokens)), <<32>>)) = <<>>}

\* The first rule of an order that is among the broken ones.
FirstBroken(order, broken) ==
    order[CHOOSE i \in DOMAIN order : order[i] \in broken /\ \A j \in 1..(i - 1) : order[j] \notin broken]

\* C27: parse_command returns Ok exactly for a line that breaks no rule, and for a line
\* that breaks some it returns the error of the first broken rule in the order
\* EmptyCommand, UnknownCommand, MissingUdpTarget, BadUdpScheme, InvalidUdpAddress,
\* MissingTickers, EmptyTickers.
C27_Original ==
    answer.tag \in {"Ok", "Err"} =>
        IF BrokenRules(line) = {}
          THEN answer.tag = "Ok"
          ELSE /\ answer.tag = "Err"
               /\ answer.error =
                    FirstBroken(<<"EmptyCommand", "UnknownCommand", "MissingUdpTarget",
                                  "BadUdpScheme", "InvalidUdpAddress", "MissingTickers",
                                  "EmptyTickers">>, BrokenRules(line))

\* A ticker list that is sorted, upper-case, without duplicates and without empty items.
CanonicalList(t) ==
    /\ \A i \in 1..(Len(t) - 1) : str_lt(t[i], t[i + 1])
    /\ \A i \in DOMAIN t : t[i] # <<>> /\ to_ascii_uppercase(t[i]) = t[i]

\* The normalization of a ticker list: every item trimmed and upper-cased, the empty ones
\* dropped, the rest sorted without duplicates.
NormalizedList(t) ==
    into_iter_collect({to_ascii_uppercase(trim(t[i])) : i \in DOMAIN t} \ {<<>>})

\* No item of the list holds a comma or white space.
PlainList(t) == \A i \in DOMAIN t : \A k \in DOMAIN t[i] : t[i][k] \notin WhiteSpace \cup {44}

\* C28 as stated: for every address a and every non-empty canonical list t, parsing the
\* formatted command returns Stream with udp_target = a and tickers = t; for every other
\* list it returns Stream with the normalization of the list as tickers.
C28_Original ==
    answer.tag \in {"Ok", "Err"} =>
        IF value.tickers # <<>> /\ CanonicalList(value.tickers)
          THEN /\ answer.tag = "Ok"
               /\ answer.udp_target = value.udp_target
               /\ answer.tickers = value.tickers
          ELSE /\ answer.tag = "Ok"
               /\ answer.tickers = NormalizedList(value.tickers)

\* C28: for an address that is IPv4, or IPv6 with flowinfo 0, and a list whose items hold no
\* comma and no white space: if the normalization of the list is not empty, parsing the
\* formatted command returns Stream with udp_target equal to the address and tickers
\* equal to the normalization, which for a canonical list is the list itself; if it is
\* empty, MissingTickers or EmptyTickers.  For an IPv6 address with another flowinfo the
\* parsed udp_target is the address with flowinfo 0.
C28_RoundTrip ==
    (answer.tag \in {"Ok", "Err"} /\ PlainList(value.tickers)) =>
        /\ CanonicalList(value.tickers) => NormalizedList(value.tickers) = value.tickers
        /\ IF NormalizedList(value.tickers) = <<>>
             THEN answer.tag = "Err" /\ answer.error \in {"MissingTickers", "EmptyTickers"}
             ELSE /\ answer.tag = "Ok"
                  /\ answer.tickers = NormalizedList(value.tickers)
                  /\ answer.udp_target =
                       IF value.udp_target.v = 4
                         THEN value.udp_target
                         ELSE [value.udp_target EXCEPT !.flowinfo = 0]

\* C28 witness: an IPv6 address with a scope id and the canonical list A, B came back as
\* they were.
C28_Witness ==
    /\ answer.tag = "Ok"
    /\ value.udp_target.v = 6
    /\ value.udp_target.scope_id = 3
    /\ value.tickers = <<<<65>>, <<66>>>>
    /\ answer.udp_target = value.udp_target
    /\ answer.tickers = value.tickers

\* C30: for every packet, decoding its encoding succeeds and gives a packet equal to it,
\* the first byte of the encoding is the wire version 1, and the encoding of Ping is the
\* encoding of no Quote.
C30_Original ==
    /\ buf # <<>> =>
          /\ buf[1] = 1
          /\ value.kind = "Quote" => buf # encode_v1([kind |-> "Ping"])
    /\ answer.tag \in {"Ok", "Err"} =>
          /\ answer.tag = "Ok"
          /\ packet_eq(answer.pkt, value)

\* C31: decode answers PacketTooShort for the empty datagram and for no other; for a
\* datagram whose first byte v is not WIRE_VERSION it answers UnsupportedWireVersion(v)
\* whatever follows; an answer made from the payload (a packet or a codec error) is
\* given only under version byte 1.
C31_DecodeChecksVersionFirst ==
    answer # NoAnswer =>
        /\ answer = WireErr("PacketTooShort", 0) <=> buf = <<>>
        /\ (buf # <<>> /\ buf[1] # 1) => answer = WireErr("UnsupportedWireVersion", buf[1])
        /\ (answer.tag = "Ok" \/ answer.error = "Postcard") => (buf # <<>> /\ buf[1] = 1)

\* a well-formed Ping payload under version byte 2 has been refused for its version
C31_Witness ==
    /\ buf = <<2, 1>>
    /\ answer = WireErr("UnsupportedWireVersion", 2)

\* C32: the client's receive loop starts disconnected; it becomes connected only in the
\* step that handles the first datagram that decodes, and is then connected to the source
\* of that datagram; a datagram that does not decode leaves it disconnected; while the
\* loop runs it is connected as soon as one datagram has decoded; once connected it stays
\* connected and the address it is connected to never changes.
C32_Inv ==
    /\ connected <=> peer # "none"
    /\ Len(chist.decoded) <= 1
    /\ chist.decoded = <<>> => ~connected
    /\ connected => peer = chist.decoded[1]
    /\ (upc \in {"check", "recv"} /\ chist.decoded # <<>>) => connected

C32_Step ==
    /\ connected => (connected' /\ peer' = peer)
    /\ (~connected /\ connected') =>
          \E src \in Addrs, bytes \in ClientDatagrams :
              /\ udp_recv_from(src, bytes, TRUE)
              /\ decode(bytes).tag = "Ok"
              /\ chist.decoded = <<>>
              /\ peer' = src
    /\ \A src \in Addrs, bytes \in ClientDatagrams, connect_ok \in ConnectResults :
          (udp_recv_from(src, bytes, connect_ok) /\ decode(bytes).tag # "Ok") =>
              (~connected' /\ peer' = "none" /\ upc' = "check")

C32_LockOnFirstValidDatagram == [](C32_Inv) /\ [][C32_Step]_vars

\* the receiver is connected to a2 and reads again
C32_Witness ==
    /\ connected
    /\ peer = "a2"
    /\ chist.decoded = <<"a2">>
    /\ upc = "recv"

\* C33: the receiver hands an address to the ping thread at most once, and it is the
\* source of the first datagram that decoded; the ping thread sends nothing before it has
\* taken that address from the channel; every datagram it sends is an encoded Ping to
\* that address; every Ping but the first is sent after a sleep of PING_INTERVAL; and
\* while shutdown is not requested and sending does not fail, each Ping is followed by
\* another.
C33_Inv ==
    /\ Len(chist.handed) <= 1
    /\ chist.handed # <<>> => chist.handed = chist.decoded
    /\ Len(ping_chan) <= 1
    /\ server_addr # "none" => (chist.handed = <<server_addr>> /\ ping_chan = <<>>)
    /\ chist.pings # <<>> => server_addr # "none"

C33_Step ==
    chist'.pings # chist.pings =>
        /\ Len(chist'.pings) = Len(chist.pings) + 1
        /\ LET ping == chist'.pings[Len(chist'.pings)] IN
              /\ chist.handed # <<>>
              /\ ping.to = chist.handed[1]
              /\ ping.to = chist.decoded[1]
              /\ decode(ping.bytes) = [tag |-> "Ok", pkt |-> [kind |-> "Ping"]]
              /\ ping.after = (IF chist.pings = <<>> THEN 0 ELSE interval)

C33_NextPing ==
    \A n \in 1..(MaxPings - 1) :
        (Len(chist.pings) = n) ~>
            (Len(chist.pings) = n + 1 \/ client_shutdown \/ client_result.ping = "Err")

C33_PingsFollowTheHandedAddress == [](C33_Inv) /\ [][C33_Step]_vars /\ C33_NextPing

\* a second Ping has gone to a1, a full interval after the first
C33_Witness ==
    /\ Len(chist.pings) = 2
    /\ chist.pings[2].to = "a1"
    /\ chist.pings[2].after = interval
    /\ peer = "a1"

\* C34: in every reachable state every client's queue holds at most capacity_per_client
\* quotes, however the broadcasts, the receivers' reads and their drops interleave; a
\* queue grows only by one quote at a time and only when it had room.
C34_Step ==
    \A ch \in Chans :
        Len(queue'[ch]) > Len(queue[ch]) =>
            /\ Len(queue'[ch]) = Len(queue[ch]) + 1
            /\ Len(queue[ch]) < capacity_per_client

C34_QueueBounded ==
    /\ [](\A ch \in Chans : Len(queue[ch]) <= capacity_per_client)
    /\ [][C34_Step]_vars

\* a queue that was read from is full again and the running broadcast found a queue Full
C34_Witness ==
    \E ch \in Chans :
        /\ rxAlive[ch]
        /\ taken[ch] # <<>>
        /\ Len(queue[ch]) = capacity_per_client
        /\ bpc = "send"
        /\ dropped_full >= 1

\* C35: a call remove_client(cid) answers true exactly when cid was registered just before
\* it; after it cid is not registered; every other registration, every queue and every
\* receiver is as before; and in the state it leaves, the same call answers false and
\* changes nothing.
C35_Again(cid) ==
    clients[cid] = NoChan => (~remove_client_returns(cid) /\ remove_entry(cid) = clients)

C35_Step ==
    \A cid \in ClientIds :
        remove_client(cid) =>
            /\ remove_client_returns(cid) <=> cid \in Registered
            /\ hist'.remove_true = hist.remove_true + (IF cid \in Registered THEN 1 ELSE 0)
            /\ Registered' = Registered \ {cid}
            /\ \A other \in ClientIds \ {cid} : clients'[other] = clients[other]
            /\ UNCHANGED <<nextChan, queue, rxAlive, taken>>

C35_RemoveClient == [](\A cid \in ClientIds : C35_Again(cid)) /\ [][C35_Step]_vars

\* client 1 was removed by a call that answered true, and client 2 keeps its registration
\* and its queued quote
C35_Witness ==
    /\ hist.add_ok = 2
    /\ hist.remove_true = 1
    /\ hist.dropped_dead = 0
    /\ clients[1] = NoChan
    /\ clients[2] # NoChan
    /\ queue[clients[2]] # <<>>

\* C36: the broadcasting thread holds the lock of Hub.clients only to take its snapshot
\* and, once for each dead client, to remove it, and no try_send step is taken under it;
\* no thread holds the lock of Hub.clients together with the lock of the liveness map, as
\* writer or as reader; a thread that holds a lock can always take its next step, so no
\* thread waits for ever on a lock that is never given back.
C36_Inv ==
    /\ clients_lock.holder = ProducerThread =>
          /\ clients_lock.at[1] \in {"idle", "evict"}
          /\ bpc = "send" => bi = 1
          /\ ENABLED LockingProducer
    /\ \A c \in Sessions :
          /\ ~(/\ clients_lock.holder = HandlerThread(c)
               /\ last_ping_lock.writer = HandlerThread(c) \/ c \in last_ping_lock.readers)
          /\ ~(last_ping_lock.writer = HandlerThread(c) /\ c \in last_ping_lock.readers)
          /\ (\/ clients_lock.holder = HandlerThread(c)
              \/ last_ping_lock.writer = HandlerThread(c)
              \/ c \in last_ping_lock.readers) => ENABLED LockingHandler(c, BOOLEAN)
    /\ last_ping_lock.writer # NoThread => last_ping_lock.readers = {}
    /\ last_ping_lock.writer = TrackerThread =>
          (clients_lock.holder # TrackerThread /\ ENABLED tracker_insert)

C36_Step ==
    /\ (bpc = "send" /\ bi' = bi + 1) => (clients_lock.holder # ProducerThread)
    /\ (bpc = "idle" /\ bpc' = "send") => (clients_lock.holder = ProducerThread)
    /\ (bpc = "evict" /\ bi' = bi + 1) =>
          (clients_lock = [holder |-> ProducerThread, at |-> <<"evict", bi>>])
    /\ (clients' # clients /\ bpc' = bpc /\ bi' = bi) =>
          \E c \in Sessions : clients_lock.holder = HandlerThread(c)

C36_LocksHeldOneAtATime == [](C36_Inv) /\ [][C36_Step]_vars

\* between a broadcast's snapshot and its first removal, client 1 of the snapshot has been
\* removed by its handler and client 2 registered by another, and the lock is free again
C36_Witness ==
    /\ bpc = "evict"
    /\ bi = 1
    /\ dropped_disconnected = <<1>>
    /\ clients[1] = NoChan
    /\ clients[2] # NoChan
    /\ \A i \in 1..Len(clients_snapshot) : clients_snapshot[i][1] # 2
    /\ clients_lock.holder = NoThread

\* C37: an iteration of broadcast's eviction loop that removes a registration removes one
\* whose receiver has been dropped, whatever add_client and remove_client calls ran since
\* the snapshot.
C37_Step ==
    (bpc = "evict" /\ bi <= Len(dropped_disconnected) /\ bi' = bi + 1) =>
        LET cid == dropped_disconnected[bi] IN
            (clients[cid] # NoChan /\ clients'[cid] = NoChan) => ~rxAlive[clients[cid]]

C37_Original == [][C37_Step]_vars

\* C38: the snapshot of a broadcast holds each client registered at that moment once and
\* no other; each iteration of the try_send loop adds one to exactly one of sent,
\* dropped_full and the dead list, so that when the loop is over the three add up to the
\* size of the snapshot, and dropped_dead is returned as the length of the dead list; a
\* queue that is not in the snapshot never holds the quote of this broadcast.
C38_Inv ==
    /\ bpc = "send" => sent + dropped_full + Len(dropped_disconnected) = bi - 1
    /\ bpc = "evict" => sent + dropped_full + Len(dropped_disconnected) = Len(clients_snapshot)
    /\ \A i, j \in 1..Len(clients_snapshot) : SnapCid(i) = SnapCid(j) => i = j
    /\ bpc # "idle" =>
          \A ch \in Chans :
              (\A i \in 1..Len(clients_snapshot) : SnapTx(i) # ch) =>
                  (q \notin Elems(queue[ch]) /\ q \notin Elems(taken[ch]))

C38_Step ==
    /\ (bpc = "idle" /\ bpc' = "send") =>
          /\ {<<cid, clients[cid]>> : cid \in Registered} = Elems(clients_snapshot')
          /\ Len(clients_snapshot') = Cardinality(Registered)
          /\ sent' = 0 /\ dropped_full' = 0 /\ dropped_disconnected' = <<>>
    /\ \A i \in 1..Len(clients_snapshot) :
          SendStep(i) =>
              \/ /\ sent' = sent + 1
                 /\ q \in Elems(queue'[SnapTx(i)])
                 /\ UNCHANGED <<dropped_full, dropped_disconnected>>
              \/ /\ dropped_full' = dropped_full + 1
                 /\ UNCHANGED <<sent, dropped_disconnected, queue>>
              \/ /\ dropped_disconnected' = Append(dropped_disconnected, SnapCid(i))
                 /\ UNCHANGED <<sent, dropped_full, queue>>
    /\ (bpc = "evict" /\ bpc' = "evict") => UNCHANGED <<sent, dropped_full, dropped_disconnected>>
    /\ (bpc = "evict" /\ bpc' = "idle") =>
          /\ hist'.dropped_dead = hist.dropped_dead + Len(dropped_disconnected)
          /\ sent + dropped_full + Len(dropped_disconnected) = Len(clients_snapshot)

C38_EachSnapshotClientCountedOnce == [](C38_Inv) /\ [][C38_Step]_vars

\* a broadcast that delivered to the one client of its snapshot is about to return, and a
\* client registered since then has not received the quote
C38_Witness ==
    /\ Returning
    /\ Len(clients_snapshot) = 1
    /\ sent = 1
    /\ \E cid \in Registered :
          /\ \A i \in 1..Len(clients_snapshot) : SnapTx(i) # clients[cid]
          /\ rxAlive[clients[cid]]
          /\ queue[clients[cid]] = <<>>

\* C39: when the write of the OK reply fails, the same step removes the client's
\* registration and returns Err from handle_conn; that handler never enters run_session
\* and sends no datagram; its ClientId stays unregistered, is held by no other handler,
\* and lies below the counter the next ClientIds come from.
FailedWrite(c) ==
    /\ hpc[c] = "done"
    /\ hret[c] = "Err"
    /\ reply[c] = <<"OK">>
    /\ stream[c] = "closed"
    /\ spc[c] = "none"

C39_Inv ==
    \A c \in Sessions :
        FailedWrite(c) =>
            /\ clients[conn_cid[c]] = NoChan
            /\ ~rxAlive[rx[c]]
            /\ ~shist[c].sent_any
            /\ conn_cid[c] < curr_client_id
            /\ \A other \in Sessions \ {c} : conn_cid[other] # conn_cid[c]

C39_Step ==
    \A c \in Sessions :
        /\ (hpc[c] = "write_ok" /\ hpc'[c] = "done") =>
              /\ clients[conn_cid[c]] # NoChan
              /\ clients'[conn_cid[c]] = NoChan
              /\ hret'[c] = "Err"
              /\ FailedWrite(c)'
        /\ FailedWrite(c) =>
              UNCHANGED <<hpc[c], hret[c], reply[c], spc[c], shist[c], conn_cid[c]>>

C39_FailedOkWriteUnregisters == [](C39_Inv) /\ [][C39_Step]_vars

\* the handler of connection 1 failed to write OK and returned; connection 2 was given
\* the next ClientId and its session has sent a quote
C39_Witness ==
    /\ FailedWrite(1)
    /\ conn_cid[1] = 1
    /\ conn_cid[2] = 2
    /\ clients[2] # NoChan
    /\ shist[2].sent_any

====
